---- MODULE Spec2Model ----
(***************************************************************************)
(* State-machine model of the WebGL replay visualizers of the tracing      *)
(* framework (wtf.replay.graphics): the WebGLState backup/restore utility, *)
(* the IntermediateBuffer off-screen surface, the Program variant          *)
(* registry, the FrameTimeVisualizer / ReplayFrame timing recorder, the    *)
(* SkipCallsVisualizer and the HighlightVisualizer.                        *)
(*                                                                         *)
(* Each component has its own specification (SpecGL, SpecProgram, ...)     *)
(* over the shared variables; a component's actions leave the other        *)
(* components' variables unchanged.                                        *)
(***************************************************************************)
EXTENDS Integers, Sequences, FiniteSets, TLC

(***************************************************************************)
(* Bounds of the model.                                                    *)
(***************************************************************************)
\* gl.getParameter(gl.MAX_TEXTURE_IMAGE_UNITS) of the modelled context.
MaxTextureUnits == 2
\* Texture objects the application has created, per target (0 is null).
MaxTextures == 1
\* Foreign GL state mutations (enable, disable, activeTexture, bindTexture,
\* bindFramebuffer) issued by the replayed application in one behaviour.
MaxMutations == 2

(***************************************************************************)
(* GL enums (goog.webgl), kept as the numbers the context sees.            *)
(***************************************************************************)
TEXTURE0 == 33984

\* wtf.replay.graphics.WebGLState.toggleStates_
toggleStates_ ==
    {"BLEND", "CULL_FACE", "DEPTH_TEST", "DITHER", "POLYGON_OFFSET_FILL",
     "SCISSOR_TEST", "STENCIL_TEST"}

\* The numbers of the toggles (goog.webgl), the keys of savedToggleStates_.
ToggleEnum ==
    [t \in toggleStates_ |->
        CASE t = "CULL_FACE" -> 2884
          [] t = "DEPTH_TEST" -> 2929
          [] t = "STENCIL_TEST" -> 2960
          [] t = "DITHER" -> 3024
          [] t = "BLEND" -> 3042
          [] t = "SCISSOR_TEST" -> 3089
          [] t = "POLYGON_OFFSET_FILL" -> 32823]

TextureUnits == 0 .. (MaxTextureUnits - 1)
Textures == 0 .. MaxTextures
TextureTargets == {"TEXTURE_2D", "TEXTURE_CUBE_MAP"}
\* Framebuffer bindings: 0 is null (the visible framebuffer), 1 is the
\* IntermediateBuffer's framebuffer_, 2 is a framebuffer of the application.
SurfaceFramebuffer == 1
Framebuffers == {0, SurfaceFramebuffer, 2}
\* The render texture rtt_ of the IntermediateBuffer, a texture that is none
\* of the application's.
RenderTexture == 9
\* The WebGLState instances: one owned by a visualizer, one owned by the
\* IntermediateBuffer (its private webGLState_, used by its methods only).
StateIds == {"vis", "buf"}

VARIABLES
    gl,          \* the WebGLRenderingContext state the model tracks
    webGLState,  \* [StateIds -> the fields of a WebGLState]
    surface,     \* the IntermediateBuffer's own contents
    mutations,   \* number of foreign GL mutations issued so far
    lastCall,    \* history: the last operation, the GL calls it issued
    preBackup,   \* history: [StateIds -> GL state seen just before backup()]
    preCall      \* history: GL state seen just before the last
                 \* IntermediateBuffer operation

glVars == <<gl, webGLState, surface, mutations, lastCall, preBackup, preCall>>

(***************************************************************************)
(* The rendering context.  A context value c carries the GL state and the  *)
(* log of GL calls issued on it by the operation in progress.              *)
(***************************************************************************)
\* A fresh WebGL context: every capability disabled except DITHER, texture
\* unit 0 active, nothing bound.
DefaultGL ==
    [toggles     |-> [t \in toggleStates_ |-> t = "DITHER"],
     activeTexture |-> TEXTURE0,
     binding2D   |-> [u \in TextureUnits |-> 0],
     bindingCube |-> [u \in TextureUnits |-> 0],
     framebuffer |-> 0,
     clearColor  |-> "application"]

Ctx(g) == [gl |-> g, calls |-> <<>>]

ActiveUnit(g) == g.activeTexture - TEXTURE0

glEnable(c, cap) ==
    [gl |-> [c.gl EXCEPT !.toggles[cap] = TRUE],
     calls |-> Append(c.calls, <<"enable", cap>>)]

glDisable(c, cap) ==
    [gl |-> [c.gl EXCEPT !.toggles[cap] = FALSE],
     calls |-> Append(c.calls, <<"disable", cap>>)]

\* gl.activeTexture: an argument that names no texture unit (such as the null
\* a never-written savedActiveTexture_ holds) is an INVALID_ENUM error and
\* changes nothing.
glActiveTexture(c, texture) ==
    [gl |-> IF (texture - TEXTURE0) \in TextureUnits
               THEN [c.gl EXCEPT !.activeTexture = texture]
               ELSE c.gl,
     calls |-> Append(c.calls, <<"activeTexture", texture>>)]

glBindTexture(c, target, texture) ==
    [gl |-> IF target = "TEXTURE_2D"
               THEN [c.gl EXCEPT !.binding2D[ActiveUnit(c.gl)] = texture]
               ELSE [c.gl EXCEPT !.bindingCube[ActiveUnit(c.gl)] = texture],
     calls |-> Append(c.calls, <<"bindTexture", target, texture>>)]

glBindFramebuffer(c, framebuffer) ==
    [gl |-> [c.gl EXCEPT !.framebuffer = framebuffer],
     calls |-> Append(c.calls, <<"bindFramebuffer", framebuffer>>)]

glClearColor(c, color) ==
    [gl |-> [c.gl EXCEPT !.clearColor = color],
     calls |-> Append(c.calls, <<"clearColor", color>>)]

\* gl.getParameter(TEXTURE_BINDING_2D / TEXTURE_BINDING_CUBE_MAP): the binding
\* of the active texture unit.
glTextureBinding2D(g) == g.binding2D[ActiveUnit(g)]
glTextureBindingCubeMap(g) == g.bindingCube[ActiveUnit(g)]

(***************************************************************************)
(* wtf.replay.graphics.WebGLState                                          *)
(***************************************************************************)
\* The fields of a newly constructed WebGLState.
NewWebGLState ==
    [backupStored_ |-> FALSE,
     savedToggleStates_ |-> [t \in {} |-> FALSE],
     savedActiveTexture_ |-> 0,
     savedTextureBinding2Ds_ |-> [u \in {} |-> 0],
     savedTextureBindingCubeMaps_ |-> [u \in {} |-> 0]]

\* The texture-unit loop of backup(): for i in [i, maxTextureUnits), make
\* unit i active and read both bindings.  r = [c |-> context, s |-> state].
RECURSIVE BackupUnits(_, _)
BackupUnits(r, i) ==
    IF i >= MaxTextureUnits THEN r
    ELSE LET c1 == glActiveTexture(r.c, TEXTURE0 + i)
             s1 == [r.s EXCEPT
                      !.savedTextureBinding2Ds_ =
                          [u \in (DOMAIN @) \cup {i} |->
                              IF u = i THEN glTextureBinding2D(c1.gl) ELSE @[u]],
                      !.savedTextureBindingCubeMaps_ =
                          [u \in (DOMAIN @) \cup {i} |->
                              IF u = i THEN glTextureBindingCubeMap(c1.gl)
                              ELSE @[u]]]
         IN  BackupUnits([c |-> c1, s |-> s1], i + 1)

\* A backup() that keeps a stored backup instead of overwriting it.
BackupMutantKeepsFirst(c, s) ==
    IF s.backupStored_ THEN [c |-> c, s |-> s]
    ELSE LET s1 == [s EXCEPT
                      !.savedToggleStates_ =
                          [t \in toggleStates_ |-> c.gl.toggles[t]],
                      !.savedActiveTexture_ = c.gl.activeTexture]
             r  == BackupUnits([c |-> c, s |-> s1], 0)
             c2 == glActiveTexture(r.c, r.s.savedActiveTexture_)
         IN  [c |-> c2, s |-> [r.s EXCEPT !.backupStored_ = TRUE]]

\* WebGLState.prototype.backup on context c and state fields s.
Backup(c, s) ==
    LET s1 == [s EXCEPT
                 !.savedToggleStates_ = [t \in toggleStates_ |-> c.gl.toggles[t]],
                 !.savedActiveTexture_ = c.gl.activeTexture]
        r  == BackupUnits([c |-> c, s |-> s1], 0)
        c2 == glActiveTexture(r.c, r.s.savedActiveTexture_)
    IN  [c |-> c2, s |-> [r.s EXCEPT !.backupStored_ = TRUE]]

\* The toggle loop of restore(): for (savedState in savedToggleStates_).  The
\* keys are the numbers of the toggles, which JavaScript enumerates in
\* ascending order.
RECURSIVE RestoreToggles(_, _, _)
RestoreToggles(c, s, todo) ==
    IF todo = {} THEN c
    ELSE LET t == CHOOSE x \in todo :
                      \A y \in todo : ToggleEnum[x] <= ToggleEnum[y]
             c1 == IF s.savedToggleStates_[t] THEN glEnable(c, t)
                   ELSE glDisable(c, t)
         IN  RestoreToggles(c1, s, todo \ {t})

\* saved[i] as JavaScript reads it: a key never written reads undefined,
\* which bindTexture takes as null (0).
SavedBinding(saved, i) == IF i \in DOMAIN saved THEN saved[i] ELSE 0

\* The texture-unit loop of restore().
RECURSIVE RestoreUnits(_, _, _)
RestoreUnits(c, s, i) ==
    IF i >= MaxTextureUnits THEN c
    ELSE LET c1 == glActiveTexture(c, TEXTURE0 + i)
             c2 == glBindTexture(c1, "TEXTURE_2D",
                                 SavedBinding(s.savedTextureBinding2Ds_, i))
             c3 == glBindTexture(c2, "TEXTURE_CUBE_MAP",
                                 SavedBinding(s.savedTextureBindingCubeMaps_, i))
         IN  RestoreUnits(c3, s, i + 1)

\* Restore without its last line: the active texture unit is left at the last
\* unit of the loop.
RestoreMutantNoActiveTexture(c, s) ==
    RestoreUnits(RestoreToggles(c, s, DOMAIN s.savedToggleStates_), s, 0)

\* WebGLState.prototype.restore after its assertion passed.
Restore(c, s) ==
    LET c1 == RestoreToggles(c, s, DOMAIN s.savedToggleStates_)
        c2 == RestoreUnits(c1, s, 0)
    IN  glActiveTexture(c2, s.savedActiveTexture_)

\* restore() with its assertion left out.
RestoreAssertionMutantNone(s) == TRUE

\* goog.asserts.assert(this.backupStored_): the assertion restore() opens with.

RestoreAssertion(s) == s.backupStored_

(***************************************************************************)
(* wtf.replay.graphics.IntermediateBuffer                                  *)
(***************************************************************************)
\* IntermediateBuffer.prototype.bindFramebuffer
IBBindFramebuffer(c) == glBindFramebuffer(c, SurfaceFramebuffer)

\* gl.clear(COLOR_BUFFER_BIT | DEPTH_BUFFER_BIT): clears the bound framebuffer.
glClear(c, surf) ==
    [c |-> [c EXCEPT !.calls = Append(@, <<"clear">>)],
     surf |-> IF c.gl.framebuffer = SurfaceFramebuffer
                 THEN [color |-> "cleared", depth |-> "cleared"]
                 ELSE surf]

\* initialize_(): the constructor takes a backup, binds the new framebuffer,
\* binds the new render texture to TEXTURE_2D, and restores.
IBInitialize(c, s) ==
    LET b  == Backup(c, s)
        c1 == glBindFramebuffer(b.c, SurfaceFramebuffer)
        c2 == glBindTexture(c1, "TEXTURE_2D", RenderTexture)
    IN  [c |-> Restore(c2, b.s), s |-> b.s]

InitGLPart ==
    LET built == IBInitialize(Ctx(DefaultGL), NewWebGLState)
    IN  /\ gl = built.c.gl
        /\ webGLState = [i \in StateIds |->
                            IF i = "buf" THEN built.s ELSE NewWebGLState]
        /\ surface = [color |-> "empty", depth |-> "empty"]
        /\ mutations = 0
        /\ lastCall = [op |-> "new", inst |-> "buf", calls |-> <<>>,
                       threw |-> FALSE,
                       changed |-> FALSE]
        /\ preBackup = [i \in StateIds |-> DefaultGL]
        /\ preCall = DefaultGL

\* The state after construction once the application has bound one of the
\* framebuffers.
InitGLBound ==
    \E f \in Framebuffers :
        LET built == IBInitialize(Ctx(DefaultGL), NewWebGLState)
            bound == glBindFramebuffer(built.c, f)
        IN  /\ gl = bound.gl
            /\ webGLState = [i \in StateIds |->
                                IF i = "buf" THEN built.s ELSE NewWebGLState]
            /\ surface = [color |-> "empty", depth |-> "empty"]
            /\ mutations = 0
            /\ lastCall = [op |-> "new", inst |-> "buf", calls |-> <<>>,
                           threw |-> FALSE, changed |-> FALSE]
            /\ preBackup = [i \in StateIds |-> DefaultGL]
            /\ preCall = DefaultGL

\* A GL call of the replayed application, outside the visualizers.
Foreign(c) ==
    /\ mutations < MaxMutations
    /\ gl' = c.gl
    /\ mutations' = mutations + 1
    /\ lastCall' = [op |-> "foreign", inst |-> "vis", calls |-> <<>>,
                    threw |-> FALSE,
                       changed |-> FALSE]
    /\ UNCHANGED <<webGLState, surface, preBackup, preCall>>

enable == \E cap \in toggleStates_ : Foreign(glEnable(Ctx(gl), cap))

disable == \E cap \in toggleStates_ : Foreign(glDisable(Ctx(gl), cap))

activeTexture ==
    \E u \in TextureUnits : Foreign(glActiveTexture(Ctx(gl), TEXTURE0 + u))

bindTexture ==
    \E target \in TextureTargets, t \in Textures :
        Foreign(glBindTexture(Ctx(gl), target, t))

bindFramebuffer ==
    \E f \in Framebuffers : Foreign(glBindFramebuffer(Ctx(gl), f))

\* WebGLState.prototype.backup() on the visualizer's instance.
backup ==
    LET b == Backup(Ctx(gl), webGLState["vis"])
    IN  /\ gl' = b.c.gl
        /\ webGLState' = [webGLState EXCEPT !["vis"] = b.s]
        /\ lastCall' = [op |-> "backup", inst |-> "vis", calls |-> b.c.calls,
                        threw |-> FALSE,
                       changed |-> FALSE]
        /\ preBackup' = [preBackup EXCEPT !["vis"] = gl]
        /\ UNCHANGED <<surface, mutations, preCall>>

\* WebGLState.prototype.restore() on the visualizer's instance.  A failed
\* assertion throws before any GL call is made.
restore ==
    LET ok == RestoreAssertion(webGLState["vis"])
        c  == IF ok THEN Restore(Ctx(gl), webGLState["vis"]) ELSE Ctx(gl)
    IN  /\ gl' = c.gl
        /\ lastCall' = [op |-> "restore", inst |-> "vis", calls |-> c.calls,
                        threw |-> ~ok, changed |-> c.gl # gl]
        /\ UNCHANGED <<webGLState, surface, mutations, preBackup, preCall>>

\* IntermediateBuffer.prototype.clear()
clear ==
    LET b  == Backup(Ctx(gl), webGLState["buf"])
        c1 == IBBindFramebuffer(b.c)
        c2 == glClearColor(c1, "zero")
        k  == glClear(c2, surface)
        c3 == Restore(k.c, b.s)
    IN  /\ gl' = c3.gl
        /\ webGLState' = [webGLState EXCEPT !["buf"] = b.s]
        /\ surface' = k.surf
        /\ lastCall' = [op |-> "clear", inst |-> "buf", calls |-> c3.calls,
                        threw |-> FALSE,
                       changed |-> FALSE]
        /\ preBackup' = [preBackup EXCEPT !["buf"] = gl]
        /\ preCall' = gl
        /\ UNCHANGED mutations

(***************************************************************************)
(* History of the visualizer's WebGLState slot: whether a backup() is      *)
(* still unrestored, whether some backup() overwrote an unrestored one,    *)
(* what that overwritten backup() had seen, and how many restore() calls   *)
(* passed their assertion since the latest backup() (counted up to 2).     *)
(***************************************************************************)
VARIABLES nested

slotVars == <<nested>>

\* What the snapshot is about: the seven toggles, the 2D and cube-map binding
\* of every texture unit, and the active texture unit.
SnapshotView(g) ==
    [toggles |-> g.toggles, activeTexture |-> g.activeTexture,
     binding2D |-> g.binding2D, bindingCube |-> g.bindingCube]

SlotIdle ==
    nested = [unrestored |-> FALSE, overwritten |-> FALSE,
              earlier |-> SnapshotView(DefaultGL), restores |-> 0]

\* backup() seen from the history: preBackup still holds what the previous
\* backup() saw.
TrackBackup ==
    nested' = [unrestored |-> TRUE,
               overwritten |-> nested.overwritten \/ nested.unrestored,
               earlier |-> IF nested.unrestored
                           THEN SnapshotView(preBackup["vis"])
                           ELSE nested.earlier,
               restores |-> 0]

\* restore() seen from the history.
TrackRestore ==
    nested' = IF RestoreAssertion(webGLState["vis"])
              THEN [nested EXCEPT !.unrestored = FALSE,
                                  !.restores = IF @ < 2 THEN @ + 1 ELSE @]
              ELSE nested

(***************************************************************************)
(* Program (unnamed/part_002): a shader program and its variants.          *)
(***************************************************************************)
\* Largest number of active uniforms / active attributes of the original
\* program.
MaxUniforms == 1
MaxAttributes == 1

\* Largest number of active attributes where the program has a single FLOAT
\* uniform.
MaxSyncAttributes == 2

\* The WebGL program object wrapped by the Program record.
OriginalProgram == 1

\* The variant names explored.  'highlight' is internally defined ('overdraw',
\* the other internal name, differs from it only in the colour its fragment
\* shader writes); 'custom' stands for any other name, which only
\* createVariantProgram can define.
VariantNames == {"highlight", "custom"}

\* Program objects of the context; 0 stands for null/undefined.
ProgramIds == 1 .. (Cardinality(VariantNames) + 2)

\* Every uniform type of WebGL 1, and one tag outside of it.
UniformTypes ==
    {"BOOL", "BOOL_VEC2", "BOOL_VEC3", "BOOL_VEC4",
     "INT", "INT_VEC2", "INT_VEC3", "INT_VEC4",
     "FLOAT", "FLOAT_VEC2", "FLOAT_VEC3", "FLOAT_VEC4",
     "FLOAT_MAT2", "FLOAT_MAT3", "FLOAT_MAT4",
     "SAMPLER_2D", "SAMPLER_CUBE", "OTHER"}

\* Shader sources handed to createVariantProgram; "" is an omitted source.
ShaderSources == {"", "source"}

VARIABLES
    uniforms,     \* active uniforms of the original program: their types
    attributes,   \* active attributes of the original program
    program,      \* the Program record: variants_ and, in keys, the names
                  \* of its variants in the order they were added
    pgl,          \* the context: current program, program objects, uniforms
    plast         \* the latest call on the Program record and its GL calls

progVars == <<uniforms, attributes, program, pgl, plast>>

\* The running state of one call: the record, the context, the calls made so
\* far and whether an assertion has thrown.
PCall(p, g) == [variants_ |-> p.variants_, keys |-> p.keys,
                current |-> g.current,
                live |-> g.live, uvalue |-> g.uvalue,
                log |-> <<>>, threw |-> FALSE]

PLog(c, e) == [c EXCEPT !.log = Append(@, e)]

\* goog.asserts.fail(): throws.
AssertsFail(c, msg) == [PLog(c, <<"assert", msg>>) EXCEPT !.threw = TRUE]

\* gl.createProgram(): a program object that is not in use.
FreshProgram(c) ==
    CHOOSE p \in ProgramIds :
        /\ p \notin (c.live \cup {c.current})
        /\ \A q \in ProgramIds :
               q \notin (c.live \cup {c.current}) => p <= q

\* gl.useProgram(program)
glUseProgram(c, p) == [PLog(c, <<"useProgram", p>>) EXCEPT !.current = p]

\* gl.uniform*(location, value): sets a uniform of the current program.
glUniform(c, setter, p, i, value) ==
    LET d == PLog(c, <<setter, p, i, value>>)
    IN  IF p = c.current /\ p \in c.live
        THEN [d EXCEPT !.uvalue[p][i] = value]
        ELSE d

\* createVariantProgram past its check for an existing variant: the program
\* is created, its two shaders attached, linked and detached.
NewVariantProgram(c, variantName, vertexSource, fragmentSource) ==
        LET p  == FreshProgram(c)
            vs == IF vertexSource # "" THEN "variantVertexShader"
                  ELSE "originalVertexShader_"
            fs == IF fragmentSource # "" THEN "variantFragmentShader"
                  ELSE "originalFragmentShader_"
            c1 == [PLog(c, <<"createProgram", p>>) EXCEPT
                       !.variants_[variantName] = p,
                       !.keys = IF \E i \in DOMAIN @ : @[i] = variantName
                                THEN @ ELSE Append(@, variantName),
                       !.live = @ \cup {p},
                       !.uvalue[p] = [i \in 1 .. Len(uniforms) |-> 0]]
            c2 == IF vertexSource # ""
                  THEN PLog(PLog(PLog(c1, <<"createShader", vs>>),
                                 <<"shaderSource", vs>>),
                            <<"compileShader", vs>>)
                  ELSE c1
            c3 == PLog(c2, <<"attachShader", p, vs>>)
            c4 == IF fragmentSource # ""
                  THEN PLog(PLog(PLog(c3, <<"createShader", fs>>),
                                 <<"shaderSource", fs>>),
                            <<"compileShader", fs>>)
                  ELSE c3
            c5 == PLog(c4, <<"attachShader", p, fs>>)
            c6 == PLog(c5, <<"linkProgram", p>>)
            c7 == PLog(PLog(c6, <<"detachShader", p, vs>>),
                       <<"detachShader", p, fs>>)
            c8 == IF vertexSource # ""
                  THEN PLog(c7, <<"deleteShader", vs>>) ELSE c7
        IN  IF fragmentSource # ""
            THEN PLog(c8, <<"deleteShader", fs>>) ELSE c8

\* A createVariantProgram that does not look for an existing variant.
CreateVariantMutantRecreates(c, variantName, vertexSource, fragmentSource) ==
    NewVariantProgram(c, variantName, vertexSource, fragmentSource)

\* Program.prototype.createVariantProgram
CreateVariantProgram(c, variantName, vertexSource, fragmentSource) ==
    IF c.variants_[variantName] # 0
    THEN c
    ELSE NewVariantProgram(c, variantName, vertexSource, fragmentSource)

\* A createInternalVariant_ that defines a variant for every name.
CreateInternalVariantMutantAnyName(c, variantName) ==
    CreateVariantProgram(c, variantName, "", "source")

\* Program.prototype.createInternalVariant_
CreateInternalVariant(c, variantName) ==
    IF variantName = "highlight"
    THEN CreateVariantProgram(c, "highlight", "", "source")
    ELSE IF variantName = "overdraw"
    THEN CreateVariantProgram(c, "overdraw", "", "source")
    ELSE AssertsFail(c, "Unsupported variant name.")

\* A switch whose default branch sets the uniform as an integer.
UniformSetterMutantDefaultInt(type) ==
    CASE type \in {"BOOL", "INT", "SAMPLER_2D", "SAMPLER_CUBE"} -> "uniform1i"
      [] type \in {"BOOL_VEC2", "INT_VEC2"} -> "uniform2iv"
      [] type \in {"BOOL_VEC3", "INT_VEC3"} -> "uniform3iv"
      [] type = "INT_VEC4" -> "uniform4iv"
      [] type = "FLOAT" -> "uniform1f"
      [] type = "FLOAT_VEC2" -> "uniform2fv"
      [] type = "FLOAT_VEC3" -> "uniform3fv"
      [] type = "FLOAT_VEC4" -> "uniform4fv"
      [] type = "FLOAT_MAT2" -> "uniformMatrix2fv"
      [] type = "FLOAT_MAT3" -> "uniformMatrix3fv"
      [] type = "FLOAT_MAT4" -> "uniformMatrix4fv"
      [] OTHER -> "uniform1i"

\* The switch of syncPrograms_: the setter called for a uniform type, "" where
\* the switch falls to its default.
UniformSetter(type) ==
    CASE type = "BOOL" -> "uniform1i"
      [] type = "BOOL_VEC2" -> "uniform2iv"
      [] type = "BOOL_VEC3" -> "uniform3iv"
      [] type = "INT" -> "uniform1i"
      [] type = "INT_VEC2" -> "uniform2iv"
      [] type = "INT_VEC3" -> "uniform3iv"
      [] type = "INT_VEC4" -> "uniform4iv"
      [] type = "FLOAT" -> "uniform1f"
      [] type = "FLOAT_VEC2" -> "uniform2fv"
      [] type = "FLOAT_VEC3" -> "uniform3fv"
      [] type = "FLOAT_VEC4" -> "uniform4fv"
      [] type = "FLOAT_MAT2" -> "uniformMatrix2fv"
      [] type = "FLOAT_MAT3" -> "uniformMatrix3fv"
      [] type = "FLOAT_MAT4" -> "uniformMatrix4fv"
      [] type = "SAMPLER_2D" -> "uniform1i"
      [] type = "SAMPLER_CUBE" -> "uniform1i"
      [] OTHER -> ""

\* syncPrograms_, uniforms i .. activeUniformsCount of the original program.
RECURSIVE SyncUniforms(_, _, _)
SyncUniforms(c, variantName, i) ==
    IF c.threw \/ i > Len(uniforms)
    THEN c
    ELSE
        LET variant == c.variants_[variantName]
            value   == c.uvalue[OriginalProgram][i]
            c1 == glUseProgram(c, variant)
            c2 == IF UniformSetter(uniforms[i]) # ""
                  THEN glUniform(c1, UniformSetter(uniforms[i]),
                                 variant, i, value)
                  ELSE AssertsFail(c1, "Unsupported uniform type.")
        IN  IF c2.threw
            THEN c2
            ELSE SyncUniforms(glUseProgram(c2, OriginalProgram),
                              variantName, i + 1)

\* A sync of attributes that does not look at the location in the variant.
RECURSIVE SyncAttributesMutantNoLocationCheck(_, _, _)
SyncAttributesMutantNoLocationCheck(c, variantName, i) ==
    IF c.threw \/ i > Len(attributes)
    THEN c
    ELSE
        IF attributes[i].enabled
        THEN
            LET variant == c.variants_[variantName]
                loc == attributes[i].variantLocation
                c1  == glUseProgram(c, variant)
                c2  == PLog(PLog(PLog(c1,
                                <<"enableVertexAttribArray", loc>>),
                                <<"bindBuffer", i>>),
                                <<"vertexAttribPointer", loc>>)
            IN  SyncAttributesMutantNoLocationCheck(
                    glUseProgram(c2, OriginalProgram), variantName, i + 1)
        ELSE SyncAttributesMutantNoLocationCheck(c, variantName, i + 1)

\* syncPrograms_, attributes i .. activeAttributesCount of the original.
RECURSIVE SyncAttributes(_, _, _)
SyncAttributes(c, variantName, i) ==
    IF c.threw \/ i > Len(attributes)
    THEN c
    ELSE
        IF attributes[i].enabled
        THEN
            LET variant == c.variants_[variantName]
                loc == attributes[i].variantLocation
                c1  == glUseProgram(c, variant)
                c2  == IF loc >= 0
                       THEN PLog(PLog(PLog(c1,
                                <<"enableVertexAttribArray", loc>>),
                                <<"bindBuffer", i>>),
                                <<"vertexAttribPointer", loc>>)
                       ELSE c1
            IN  SyncAttributes(glUseProgram(c2, OriginalProgram),
                               variantName, i + 1)
        ELSE SyncAttributes(c, variantName, i + 1)

\* Program.prototype.syncPrograms_
SyncPrograms(c, variantName) ==
    SyncAttributes(SyncUniforms(c, variantName, 1), variantName, 1)

\* The caller's draw function: a draw call with the current program.
DrawFunction(c) == PLog(c, <<"drawFunction", c.current>>)

\* A drawWithVariant that leaves the variant program bound.
DrawWithVariantMutantNoRebind(c, variantName) ==
    LET c1 == IF c.variants_[variantName] = 0
              THEN CreateInternalVariant(c, variantName) ELSE c
        c2 == IF c1.threw THEN c1 ELSE SyncPrograms(c1, variantName)
    IN  IF c2.threw THEN c2
        ELSE DrawFunction(glUseProgram(c2, c2.variants_[variantName]))

\* Program.prototype.drawWithVariant
DrawWithVariant(c, variantName) ==
    LET c1 == IF c.variants_[variantName] = 0
              THEN CreateInternalVariant(c, variantName) ELSE c
        c2 == IF c1.threw THEN c1 ELSE SyncPrograms(c1, variantName)
    IN  IF c2.threw THEN c2
        ELSE glUseProgram(
                 DrawFunction(glUseProgram(c2, c2.variants_[variantName])),
                 OriginalProgram)

\* Program.prototype.deleteVariants
RECURSIVE DeletePrograms(_, _)
DeletePrograms(c, todo) ==
    IF todo = <<>> THEN c
    ELSE DeletePrograms(
             [PLog(c, <<"deleteProgram", c.variants_[Head(todo)]>>) EXCEPT
                 !.live = @ \ {c.variants_[Head(todo)]},
                 !.uvalue[c.variants_[Head(todo)]] =
                     [i \in 1 .. Len(uniforms) |-> 0]],
             Tail(todo))

DeleteVariants(c) ==
    [DeletePrograms(c, c.keys)
        EXCEPT !.variants_ = [n \in VariantNames |-> 0], !.keys = <<>>]

\* The state after `new Program(originalProgram, gl)`, for an original program
\* with the given uniforms and attributes, bound by the application.  The
\* application has stored 1 in every uniform of its program; 0 is the value
\* of a uniform after linking.
InitProgramWith(us, as) ==
    /\ uniforms = us
    /\ attributes = as
    /\ program = [variants_ |-> [n \in VariantNames |-> 0], keys |-> <<>>]
    /\ pgl = [current |-> OriginalProgram,
              live |-> {OriginalProgram},
              uvalue |-> [p \in ProgramIds |->
                             [i \in 1 .. Len(us) |->
                                 IF p = OriginalProgram THEN 1 ELSE 0]]]
    /\ plast = [op |-> "new", name |-> "", existed |-> FALSE,
                vertexSource |-> "", fragmentSource |-> "",
                log |-> <<>>, threw |-> FALSE]

\* An active attribute of the original program: whether its array is enabled
\* and its location in a variant (-1 where the variant's linker dropped it).
AttributeInfos(i) ==
    [enabled : BOOLEAN, variantLocation : {-1, i - 1}]

\* The lists of up to max attributes, none of them both disabled and dropped.
AttributeListsUpTo(max) ==
    UNION {{as \in [1 .. na -> UNION {AttributeInfos(i) : i \in 1 .. na}] :
               \A i \in 1 .. na :
                   /\ as[i] \in AttributeInfos(i)
                   /\ (as[i].enabled \/ as[i].variantLocation >= 0)} :
           na \in 0 .. max}

\* The attribute lists explored: up to MaxAttributes attributes.
AttributeLists == AttributeListsUpTo(MaxAttributes)

\* The uniform lists explored: up to MaxUniforms uniforms of which at most one
\* has a type other than FLOAT.
UniformLists ==
    UNION {{us \in [1 .. nu -> UniformTypes] :
               Cardinality({i \in 1 .. nu : us[i] # "FLOAT"}) <= 1} :
           nu \in 0 .. MaxUniforms}

InitProgramPart ==
    \E us \in UniformLists, as \in AttributeLists : InitProgramWith(us, as)

\* Programs with one FLOAT uniform and up to MaxSyncAttributes attributes.
InitSyncPart ==
    \E as \in AttributeListsUpTo(MaxSyncAttributes) :
        InitProgramWith(<<"FLOAT">>, as)

\* A Program record of a program without uniforms or attributes.
ProgramIdle == InitProgramWith(<<>>, <<>>)

\* Commit the outcome of a call on the Program record.
ProgramCallWith(op, variantName, vertexSource, fragmentSource, c) ==
    /\ program' = [variants_ |-> c.variants_, keys |-> c.keys]
    /\ pgl' = [current |-> c.current, live |-> c.live, uvalue |-> c.uvalue]
    /\ plast' = [op |-> op, name |-> variantName,
                 existed |-> (variantName # ""
                              /\ program.variants_[variantName] # 0),
                 vertexSource |-> vertexSource,
                 fragmentSource |-> fragmentSource,
                 log |-> c.log, threw |-> c.threw]
    /\ UNCHANGED <<uniforms, attributes>>

ProgramCall(op, variantName, c) == ProgramCallWith(op, variantName, "", "", c)

createVariantProgram ==
    \E variantName \in VariantNames,
       vertexSource \in ShaderSources, fragmentSource \in ShaderSources :
        ProgramCallWith("createVariantProgram", variantName,
                        vertexSource, fragmentSource,
                        CreateVariantProgram(PCall(program, pgl), variantName,
                                             vertexSource, fragmentSource))

deleteVariants ==
    ProgramCall("deleteVariants", "", DeleteVariants(PCall(program, pgl)))

drawWithVariant ==
    \E variantName \in VariantNames :
        ProgramCall("drawWithVariant", variantName,
                    DrawWithVariant(PCall(program, pgl), variantName))

\* The application binds its program or none.
useProgram ==
    \E p \in {0, OriginalProgram} :
        ProgramCall("useProgram", "", glUseProgram(PCall(program, pgl), p))

(***************************************************************************)
(* HighlightVisualizer (skipcallsvisualizer.js, 643-907) on one step of a  *)
(* trace with one context.  The framebuffers hold images: an image is the  *)
(* sequence of the layers drawn into it since it was last cleared.         *)
(* Playback, the DrawCallVisualizer base class and OverdrawSurface are not *)
(* part of the sources; they follow the design document (sections 4.2,     *)
(* 4.4, 4.5 and 5).                                                        *)
(***************************************************************************)
\* The framebuffers: the visible one (null), one the application created and
\* the one of the visualizer surface.
SurfaceTargets == {"default", "application", "visualizer"}

\* A trace event: its name, the handle it carries and, for bindFramebuffer,
\* the framebuffer it binds.
TraceEvent(name, handle, target) ==
    [name |-> name, handle |-> handle, target |-> target]

SetContextEvent == TraceEvent("wtf.webgl#setContext", 1, "")

UseProgramEvent == TraceEvent("WebGLRenderingContext#useProgram", 1, "")

ClearEvent == TraceEvent("WebGLRenderingContext#clear", 0, "")

DrawEvent == TraceEvent("WebGLRenderingContext#drawArrays", 0, "")

BindEvent(target) ==
    TraceEvent("WebGLRenderingContext#bindFramebuffer", 0, target)

\* The steps playback can be bound to.
HighlightSteps ==
    { << SetContextEvent, UseProgramEvent, ClearEvent, DrawEvent,
         BindEvent("default"), DrawEvent >>,
      << DrawEvent, SetContextEvent, UseProgramEvent, DrawEvent, DrawEvent >>,
      << SetContextEvent, UseProgramEvent, BindEvent("application"),
         DrawEvent, BindEvent("default"), DrawEvent >> }

VARIABLES
    hstep,       \* playback.getCurrentStep(): the events of the step
    hplayback,   \* the playback cursor: subStepEventIndex
    hgl,         \* the context: FRAMEBUFFER_BINDING and the images
    highlight,   \* the HighlightVisualizer and its surfaces; drawn is
                 \* history: the calls drawToSurface_ has drawn into the
                 \* visualizer surface since the last operation began
    hlast        \* history: the last operation, and the visible image before
                 \* the first of two triggers on the same index

hlVars == <<hstep, hplayback, hgl, highlight, hlast>>

\* A layer of an image: the call of the step that drew it (kind "call"), a
\* call drawn with the highlight variant (kind "highlight", with firstDraw_),
\* or a surface texture blended over the image (kind "texture").
Layer(kind, index, first, texture) ==
    [kind |-> kind, index |-> index, first |-> first, texture |-> texture]

\* Playback, the context and the visualizer, taken together.
World == [pb |-> hplayback, gl |-> hgl, hv |-> highlight]

\* The context at the start of the step; the surfaces of the visualizer are
\* not objects of the trace and keep their contents.
StartOfStep(w) ==
    [w EXCEPT !.pb.subStepEventIndex = -1,
              !.gl.framebuffer = "default",
              !.gl.image = [f \in SurfaceTargets |->
                               IF f = "visualizer" THEN w.gl.image[f]
                               ELSE <<>>]]

\* The call of event e itself, issued on the context.
RealCall(w, e, index) ==
    LET f == w.gl.framebuffer
    IN  CASE e.name = "WebGLRenderingContext#clear" ->
                 [w EXCEPT !.gl.image[f] = <<Layer("call", index, FALSE, <<>>)>>]
          [] e.name = "WebGLRenderingContext#drawArrays" ->
                 [w EXCEPT !.gl.image[f] =
                               Append(@, Layer("call", index, FALSE, <<>>))]
          [] e.name = "WebGLRenderingContext#bindFramebuffer" ->
                 [w EXCEPT !.gl.framebuffer = e.target]
          [] OTHER -> w

\* HighlightVisualizer.prototype.drawToSurface_, followed by the
\* webGLState.restore() of its caller: WebGLState (program.js) keeps the
\* toggles and the texture bindings, not FRAMEBUFFER_BINDING, so the surface
\* stays bound.
DrawToSurface_(w, index) ==
    IF w.gl.framebuffer # "default"
    THEN w
    ELSE [w EXCEPT !.gl.framebuffer = "visualizer",
                   !.gl.image["visualizer"] =
                       Append(@, Layer("highlight", index,
                                       w.hv.firstDraw_, <<>>)),
                   !.hv.drawn =
                       Append(@, Layer("highlight", index,
                                       w.hv.firstDraw_, <<>>))]

\* HighlightVisualizer.prototype.handleDrawCall
HandleDrawCall(w, index) ==
    IF ~w.hv.modifyDraws
         \/ w.hv.latestContextHandle = 0
         \/ w.hv.latestProgramHandle = 0
    THEN w
    ELSE DrawToSurface_(w, index)

\* The post mutator of WebGLRenderingContext#clear
ClearPost(w, index) ==
    IF ~w.hv.modifyDraws THEN w ELSE DrawToSurface_(w, index)

\* The mutators of the visualizer run after the call of event e.
PostMutators(w, e, index) ==
    CASE e.name = "wtf.webgl#setContext" ->
             [w EXCEPT !.hv.latestContextHandle = e.handle,
                       !.hv.contexts = @ \cup {e.handle}]
      [] e.name = "WebGLRenderingContext#useProgram" ->
             [w EXCEPT !.hv.latestProgramHandle = e.handle]
      [] e.name = "WebGLRenderingContext#clear" -> ClearPost(w, index)
      [] e.name = "WebGLRenderingContext#drawArrays" ->
             HandleDrawCall(w, index)
      [] OTHER -> w

\* Playback executes the events after the cursor up to the one of index
\* target.
RECURSIVE PlayTo(_, _, _)
PlayTo(w, events, target) ==
    LET next == w.pb.subStepEventIndex + 1
    IN  IF next > target \/ next >= Len(events)
        THEN w
        ELSE PlayTo(
                 PostMutators(
                     RealCall([w EXCEPT !.pb.subStepEventIndex = next],
                              events[next + 1], next),
                     events[next + 1], next),
                 events, target)

\* playback.seekSubStepEvent: forward from the cursor, or from the start of
\* the step when the target lies before the cursor.
SeekSubStepEvent(w, events, target) ==
    IF target < w.pb.subStepEventIndex
    THEN PlayTo(StartOfStep(w), events, target)
    ELSE PlayTo(w, events, target)

\* playback.seekStep(0); playback.seekStep(currentStepIndex)
SeekStep(w) == StartOfStep(w)

\* DrawCallVisualizer.prototype.setupSurfaces: the visualizer surface of every
\* known context is cleared, the state of the caller undisturbed.
SetupSurfaces(w) ==
    IF w.hv.contexts = {} THEN w
    ELSE [w EXCEPT !.gl.image["visualizer"] = <<>>]

\* DrawCallVisualizer.prototype.restoreState: the trace is replayed from its
\* start to the current position without modified draws, and the visualizer
\* is marked inactive.
HighlightRestoreState(w, events) ==
    LET inactive == [w EXCEPT !.hv.active = FALSE, !.hv.modifyDraws = FALSE]
    IN  PlayTo(StartOfStep(inactive), events, w.pb.subStepEventIndex)

\* playbackSurfaces[contextHandle].captureTexture(): the pixels of the active
\* framebuffer are copied into the texture of the playback surface.
CaptureTexture(w) ==
    [w EXCEPT !.hv.playbackTexture = w.gl.image[w.gl.framebuffer]]

\* surface.drawTexture(blend), surface.drawOverdraw(blend): the texture is
\* drawn into the active framebuffer, over its image when blending and in its
\* place otherwise.  A cleared texture is transparent.  Drawing the texture
\* of the bound framebuffer is a feedback loop, which draws nothing.
DrawTexture(w, texture, blend, ownFramebuffer) ==
    LET f == w.gl.framebuffer
    IN  IF f = ownFramebuffer THEN w
        ELSE IF ~blend THEN [w EXCEPT !.gl.image[f] = texture]
        ELSE IF texture = <<>> THEN w
        ELSE [w EXCEPT !.gl.image[f] =
                           Append(@, Layer("texture", 0, FALSE, texture))]

\* The part of trigger after the target call was replayed.
TriggerComposite(w, events, index, currentSubStepIndex) ==
    LET forward == IF currentSubStepIndex <= index
                   THEN [w EXCEPT !.hv.modifyDraws = FALSE] ELSE w
        guarded == [forward EXCEPT !.hv.resizeDisabled = TRUE]
        sought == SeekSubStepEvent(guarded, events, currentSubStepIndex)
        plain == [sought EXCEPT !.hv.modifyDraws = FALSE]
        captured == CaptureTexture(plain)
        counted == DrawTexture(captured, captured.gl.image["visualizer"],
                               FALSE, "visualizer")
        redrawn == DrawTexture(counted, counted.hv.playbackTexture,
                               FALSE, "playback")
        shown == DrawTexture(redrawn, redrawn.gl.image["visualizer"],
                             TRUE, "visualizer")
    IN  [shown EXCEPT !.hv.resizeDisabled = FALSE, !.hv.completed = TRUE]

\* A trigger that leaves firstDraw_ set after the target call.
TriggerMutantKeepsFirstDraw(w, events, index) ==
    LET restored == IF w.hv.completed
                    THEN HighlightRestoreState(w, events) ELSE w
        activated == [restored EXCEPT !.hv.active = TRUE, !.hv.drawn = <<>>]
        currentSubStepIndex == activated.pb.subStepEventIndex
        before == SeekSubStepEvent(SetupSurfaces(SeekStep(SeekStep(activated))),
                                   events, index - 1)
    IN  IF before.hv.latestContextHandle = 0
        THEN [before EXCEPT !.hv.completed = TRUE]
        ELSE LET marked == [before EXCEPT !.hv.modifyDraws = TRUE,
                                          !.hv.firstDraw_ = TRUE]
                 target == SeekSubStepEvent(marked, events, index)
             IN  TriggerComposite(target, events, index, currentSubStepIndex)

\* HighlightVisualizer.prototype.trigger
Trigger(w, events, index) ==
    LET restored == IF w.hv.completed
                    THEN HighlightRestoreState(w, events) ELSE w
        activated == [restored EXCEPT !.hv.active = TRUE, !.hv.drawn = <<>>]
        currentSubStepIndex == activated.pb.subStepEventIndex
        before == SeekSubStepEvent(SetupSurfaces(SeekStep(SeekStep(activated))),
                                   events, index - 1)
    IN  IF before.hv.latestContextHandle = 0
        THEN [before EXCEPT !.hv.completed = TRUE]
        ELSE LET marked == [before EXCEPT !.hv.modifyDraws = TRUE,
                                          !.hv.firstDraw_ = TRUE]
                 target == SeekSubStepEvent(marked, events, index)
             IN  TriggerComposite([target EXCEPT !.hv.firstDraw_ = FALSE],
                                  events, index, currentSubStepIndex)

\* The image of the visible framebuffer.
Visible(w) == w.gl.image["default"]

\* new HighlightVisualizer(playback), playback at the start of a step.
InitHighlightWith(events) ==
    /\ hstep = events
    /\ hplayback = [subStepEventIndex |-> -1]
    /\ hgl = [framebuffer |-> "default",
              image |-> [f \in SurfaceTargets |-> <<>>]]
    /\ highlight = [active |-> FALSE,
                    completed |-> FALSE,
                    modifyDraws |-> FALSE,
                    firstDraw_ |-> TRUE,
                    latestContextHandle |-> 0,
                    latestProgramHandle |-> 0,
                    contexts |-> {},
                    resizeDisabled |-> FALSE,
                    playbackTexture |-> <<>>,
                    drawn |-> <<>>]
    /\ hlast = [op |-> "new", index |-> 0, second |-> FALSE,
                abandoned |-> FALSE, entry |-> -1, pre |-> <<>>]

InitHighlightPart == \E events \in HighlightSteps : InitHighlightWith(events)

\* The highlight visualizer when it is not used.
HighlightIdle ==
    InitHighlightWith(CHOOSE events \in HighlightSteps : TRUE)

SetWorld(w) ==
    /\ hplayback' = w.pb
    /\ hgl' = w.gl
    /\ highlight' = w.hv
    /\ hstep' = hstep

\* The user moves the cursor within the step.
seekSubStepEvent ==
    \E target \in -1 .. (Len(hstep) - 1) :
        /\ SetWorld(SeekSubStepEvent([World EXCEPT !.hv.drawn = <<>>],
                                     hstep, target))
        /\ hlast' = [hlast EXCEPT !.op = "seekSubStepEvent",
                                  !.second = FALSE]

\* The user asks for the call of an index to be highlighted.
highlightTrigger ==
    \E index \in 0 .. (Len(hstep) - 1) :
        LET w == Trigger(World, hstep, index)
            second == /\ hlast.op = "trigger"
                      /\ hlast.index = index
                      /\ ~hlast.second
        IN  /\ SetWorld(w)
            /\ hlast' = [op |-> "trigger",
                         index |-> index,
                         second |-> second,
                         abandoned |-> w.hv.latestContextHandle = 0,
                         entry |-> hplayback.subStepEventIndex,
                         pre |-> IF second THEN hlast.pre
                                 ELSE Visible(World)]

highlightRestoreState ==
    /\ SetWorld(HighlightRestoreState([World EXCEPT !.hv.drawn = <<>>],
                                      hstep))
    /\ hlast' = [hlast EXCEPT !.op = "restoreState", !.second = FALSE]

(***************************************************************************)
(* The context message of HighlightVisualizer.trigger: the overdraw amount *)
(* and the affected share of the screen, from calculateOverdraw()'s stats. *)
(***************************************************************************)
MaxOverdraw == 6
MaxPixels == 4

VARIABLES
    stats,       \* what calculateOverdraw() returned, or no stats
    message,     \* the context message set by changeContextMessage
    mlast        \* history: the stats the last trigger read and the
                 \* divisions it evaluated

msgVars == <<stats, message, mlast>>

\* calculateOverdraw() returns counts of pixels, or nothing.
NoStats ==
    [present |-> FALSE, numOverdraw |-> 0, numAffected |-> 0, numPixels |-> 1]

Stats ==
    {NoStats}
    \cup {st \in [present : {TRUE}, numOverdraw : 0 .. MaxOverdraw,
                   numAffected : 0 .. MaxPixels, numPixels : 1 .. MaxPixels] :
             st.numAffected <= st.numPixels}

\* Number.prototype.toFixed(digits) of the quotient num / den, den > 0: the
\* integer n for which n / 10^digits is nearest to the quotient, the larger
\* one of two equally near ones (a divisor below 8 gives no such tie).
Scale(digits) == IF digits = 0 THEN 1 ELSE 100

ToFixed(num, den, digits) ==
    [number |-> FALSE, digits |-> digits,
     scaled |-> (2 * Scale(digits) * num + den) \div (2 * den)]

\* The number 0 as it is concatenated into the message.
Zero == [number |-> TRUE, digits |-> 0, scaled |-> 0]

NoMessage ==
    [set |-> FALSE, overdrawAmount |-> Zero, affectedPercent |-> Zero]

\* An overdraw amount over all pixels of the surface.
OverdrawAmountMutantPerPixel(st) ==
    [amount |-> ToFixed(st.numOverdraw, st.numPixels, 2),
     divisions |-> <<<<"numOverdraw", "numPixels">>>>]

\* trigger, lines 886-890: the amount and the divisions evaluated for it,
\* each as <<dividend, divisor>>.
OverdrawAmount(st) ==
    IF st.numAffected * 1000 < 1
    THEN [amount |-> Zero, divisions |-> <<>>]
    ELSE [amount |-> ToFixed(st.numOverdraw, st.numAffected, 2),
          divisions |-> <<<<"numOverdraw", "numAffected">>>>]

\* trigger, lines 883-898: the message for one context.
ContextMessage(st, old) ==
    IF ~st.present THEN [message |-> old, divisions |-> <<>>]
    ELSE LET amount == OverdrawAmount(st)
         IN  [message |->
                  [set |-> TRUE,
                   overdrawAmount |-> amount.amount,
                   affectedPercent |->
                       ToFixed(100 * st.numAffected, st.numPixels, 0)],
              divisions |->
                  Append(amount.divisions, <<"numAffected", "numPixels">>)]

InitMessagePart ==
    /\ stats \in Stats
    /\ message = NoMessage
    /\ mlast = [op |-> "new", stats |-> NoStats, divisions |-> <<>>]

MessageIdle ==
    /\ stats = NoStats
    /\ message = NoMessage
    /\ mlast = [op |-> "new", stats |-> NoStats, divisions |-> <<>>]

\* The message part of trigger for the context.
changeContextMessage ==
    LET m == ContextMessage(stats, message)
    IN  /\ message' = m.message
        /\ mlast' = [op |-> "trigger", stats |-> stats,
                     divisions |-> m.divisions]
        /\ UNCHANGED stats

(***************************************************************************)
(* IntermediateBuffer: the size of the render texture and the renderbuffer *)
(* (intermediatebuffer.js, 246-287).                                       *)
(***************************************************************************)
\* Widths and heights are 1 .. MaxSize.
MaxSize == 2

Sizes == 1 .. MaxSize

VARIABLES
    ib,      \* the IntermediateBuffer: width_, height_, resizeDisabled_
    storage, \* the dimensions of the storage of the render texture (color)
             \* and of the renderbuffer (depth)
    rlast    \* history: the arguments of the last resize and of the last
             \* drawTexture, and the toggles its quad was drawn under

resizeVars == <<ib, storage, rlast>>

\* gl.texImage2D(TEXTURE_2D, 0, RGBA, width, height, 0, RGBA, UNSIGNED_BYTE,
\* null): new storage for the bound texture.
glTexImage2D(k, width, height) ==
    [c |-> [k.c EXCEPT !.calls = Append(@, <<"texImage2D", width, height>>)],
     surf |-> [k.surf EXCEPT !.color = "empty"],
     store |-> [k.store EXCEPT !.color = <<width, height>>]]

\* A renderbufferStorage that keeps the storage the renderbuffer has.
glRenderbufferStorageMutantKeeps(k, width, height) ==
    [k EXCEPT !.c.calls = Append(@, <<"bindRenderbuffer">>)]

\* gl.bindRenderbuffer, gl.renderbufferStorage(RENDERBUFFER,
\* DEPTH_COMPONENT16, width, height): new storage for the renderbuffer.
glRenderbufferStorage(k, width, height) ==
    [c |-> [k.c EXCEPT !.calls =
                Append(Append(@, <<"bindRenderbuffer">>),
                       <<"renderbufferStorage", width, height>>)],
     surf |-> [k.surf EXCEPT !.depth = "empty"],
     store |-> [k.store EXCEPT !.depth = <<width, height>>]]

\* The outcome of a call on the buffer: the context, the WebGLState of the
\* buffer, the buffer, the contents and the dimensions of its storage.
Resized(c, s, b, surf, store) ==
    [c |-> c, s |-> s, b |-> b, surf |-> surf, store |-> store]

\* A resize that does not look at resizeDisabled_.
ResizeMutantIgnoresDisabled(c, s, b, surf, store, width, height) ==
    IF b.width_ = width /\ b.height_ = height
    THEN Resized(c, s, b, surf, store)
    ELSE LET saved == Backup(c, s)
             b1 == [b EXCEPT !.width_ = width, !.height_ = height]
             c1 == glBindTexture(saved.c, "TEXTURE_2D", RenderTexture)
             k1 == glTexImage2D([c |-> c1, surf |-> surf, store |-> store],
                                b1.width_, b1.height_)
             k2 == glRenderbufferStorage(k1, b1.width_, b1.height_)
         IN  Resized(Restore(k2.c, saved.s), saved.s, b1, k2.surf, k2.store)

\* A resize that does not compare the dimensions.
ResizeMutantAlwaysReallocates(c, s, b, surf, store, width, height) ==
    IF b.resizeDisabled_
    THEN Resized(c, s, b, surf, store)
    ELSE LET saved == Backup(c, s)
             b1 == [b EXCEPT !.width_ = width, !.height_ = height]
             c1 == glBindTexture(saved.c, "TEXTURE_2D", RenderTexture)
             k1 == glTexImage2D([c |-> c1, surf |-> surf, store |-> store],
                                b1.width_, b1.height_)
             k2 == glRenderbufferStorage(k1, b1.width_, b1.height_)
         IN  Resized(Restore(k2.c, saved.s), saved.s, b1, k2.surf, k2.store)

\* IntermediateBuffer.prototype.resize
Resize(c, s, b, surf, store, width, height) ==
    IF b.resizeDisabled_ \/ (b.width_ = width /\ b.height_ = height)
    THEN Resized(c, s, b, surf, store)
    ELSE LET saved == Backup(c, s)
             b1 == [b EXCEPT !.width_ = width, !.height_ = height]
             c1 == glBindTexture(saved.c, "TEXTURE_2D", RenderTexture)
             k1 == glTexImage2D([c |-> c1, surf |-> surf, store |-> store],
                                b1.width_, b1.height_)
             k2 == glRenderbufferStorage(k1, b1.width_, b1.height_)
         IN  Resized(Restore(k2.c, saved.s), saved.s, b1, k2.surf, k2.store)

\* gl.copyTexImage2D(TEXTURE_2D, 0, RGBA, 0, 0, width, height, 0): the pixels
\* of the bound framebuffer become the image of the texture bound to
\* TEXTURE_2D, in new storage.  Where that texture is attached to the bound
\* framebuffer the call is a feedback loop: an INVALID_OPERATION that changes
\* nothing.
glCopyTexImage2D(k, width, height) ==
    LET c1 == [k.c EXCEPT !.calls = Append(@, <<"copyTexImage2D", width, height>>)]
    IN  IF glTextureBinding2D(k.c.gl) # RenderTexture
             \/ k.c.gl.framebuffer = SurfaceFramebuffer
        THEN [k EXCEPT !.c = c1]
        ELSE [c |-> c1,
              surf |-> [k.surf EXCEPT !.color = "captured"],
              store |-> [k.store EXCEPT !.color = <<width, height>>]]

\* A captureTexture that leaves the render texture bound.
IBCaptureTextureMutantLeavesBound(c, b, surf, store) ==
    LET c1 == glBindTexture(c, "TEXTURE_2D", RenderTexture)
    IN  glCopyTexImage2D([c |-> c1, surf |-> surf, store |-> store],
                         b.width_, b.height_)

\* IntermediateBuffer.prototype.captureTexture
IBCaptureTexture(c, b, surf, store) ==
    LET originalTextureBinding == glTextureBinding2D(c.gl)
        c1 == glBindTexture(c, "TEXTURE_2D", RenderTexture)
        k  == glCopyTexImage2D([c |-> c1, surf |-> surf, store |-> store],
                               b.width_, b.height_)
    IN  [k EXCEPT !.c = glBindTexture(k.c, "TEXTURE_2D",
                                      originalTextureBinding)]

\* The values of opt_blend: omitted, false, true.
BlendArguments == {"undefined", "false", "true"}

\* gl.drawArrays(TRIANGLES, 0, 6): the quad, drawn under the toggles of the
\* context.
glDrawQuad(c) ==
    [c |-> [c EXCEPT !.calls = Append(@, <<"drawArrays">>)],
     toggles |-> c.gl.toggles]

\* The part of drawTexture between backup() and restore(): the draw texture
\* program is set up, the render texture bound to unit 0, the toggles set and
\* the quad drawn.
DrawQuad(c, opt_blend) ==
    LET c1 == glBindTexture(glActiveTexture(c, TEXTURE0),
                            "TEXTURE_2D", RenderTexture)
        c2 == glDisable(glDisable(glDisable(glDisable(glDisable(c1,
                  "CULL_FACE"), "DEPTH_TEST"), "DITHER"), "SCISSOR_TEST"),
                  "STENCIL_TEST")
        c3 == IF opt_blend = "true"
              THEN glEnable(c2, "BLEND") ELSE glDisable(c2, "BLEND")
    IN  glDrawQuad(c3)

\* A drawTexture that draws the quad under the toggles of its caller.
IBDrawTextureMutantKeepsToggles(c, s, opt_blend) ==
    LET saved == Backup(c, s)
        c1 == glBindTexture(glActiveTexture(saved.c, TEXTURE0),
                            "TEXTURE_2D", RenderTexture)
        q  == glDrawQuad(c1)
    IN  [c |-> Restore(q.c, saved.s), s |-> saved.s, toggles |-> q.toggles]

\* IntermediateBuffer.prototype.drawTexture
IBDrawTexture(c, s, opt_blend) ==
    LET saved == Backup(c, s)
        q == DrawQuad(saved.c, opt_blend)
    IN  [c |-> Restore(q.c, saved.s), s |-> saved.s, toggles |-> q.toggles]

\* new IntermediateBuffer(gl, width, height)
InitResizeWith(width, height) ==
    /\ ib = [width_ |-> width, height_ |-> height, resizeDisabled_ |-> FALSE]
    /\ storage = [color |-> <<width, height>>, depth |-> <<width, height>>]
    /\ rlast = [width |-> width, height |-> height, blend |-> "undefined",
                toggles |-> DefaultGL.toggles]

InitResizePart == \E width \in Sizes, height \in Sizes :
                      InitResizeWith(width, height)

\* The buffer where its size is not looked at.
ResizeIdle == InitResizeWith(1, 1)

\* IntermediateBuffer.prototype.resize(width, height)
resize ==
    \E width \in Sizes, height \in Sizes :
        LET r == Resize(Ctx(gl), webGLState["buf"], ib, surface, storage,
                        width, height)
        IN  /\ gl' = r.c.gl
            /\ webGLState' = [webGLState EXCEPT !["buf"] = r.s]
            /\ ib' = r.b
            /\ surface' = r.surf
            /\ storage' = r.store
            /\ lastCall' = [op |-> "resize", inst |-> "buf",
                            calls |-> r.c.calls, threw |-> FALSE,
                            changed |-> r.c.gl # gl]
            /\ rlast' = [rlast EXCEPT !.width = width, !.height = height]
            /\ preBackup' = IF r.c.calls = <<>> THEN preBackup
                            ELSE [preBackup EXCEPT !["buf"] = gl]
            /\ preCall' = gl
            /\ UNCHANGED mutations

\* IntermediateBuffer.prototype.disableResize
disableResize ==
    /\ ib' = [ib EXCEPT !.resizeDisabled_ = TRUE]
    /\ lastCall' = [op |-> "disableResize", inst |-> "buf", calls |-> <<>>,
                    threw |-> FALSE, changed |-> FALSE]
    /\ UNCHANGED <<gl, webGLState, surface, mutations, preBackup, preCall,
                   storage, rlast>>

\* IntermediateBuffer.prototype.enableResize
enableResize ==
    /\ ib' = [ib EXCEPT !.resizeDisabled_ = FALSE]
    /\ lastCall' = [op |-> "enableResize", inst |-> "buf", calls |-> <<>>,
                    threw |-> FALSE, changed |-> FALSE]
    /\ UNCHANGED <<gl, webGLState, surface, mutations, preBackup, preCall,
                   storage, rlast>>

\* IntermediateBuffer.prototype.captureTexture()
captureTexture ==
    LET k == IBCaptureTexture(Ctx(gl), ib, surface, storage)
    IN  /\ gl' = k.c.gl
        /\ surface' = k.surf
        /\ storage' = k.store
        /\ lastCall' = [op |-> "captureTexture", inst |-> "buf",
                        calls |-> k.c.calls, threw |-> FALSE,
                        changed |-> k.c.gl # gl]
        /\ preCall' = gl
        /\ UNCHANGED <<webGLState, mutations, preBackup, ib, rlast>>

\* IntermediateBuffer.prototype.drawTexture(opt_blend)
drawTexture ==
    \E opt_blend \in BlendArguments :
        LET d == IBDrawTexture(Ctx(gl), webGLState["buf"], opt_blend)
        IN  /\ gl' = d.c.gl
            /\ webGLState' = [webGLState EXCEPT !["buf"] = d.s]
            /\ lastCall' = [op |-> "drawTexture", inst |-> "buf",
                            calls |-> d.c.calls, threw |-> FALSE,
                            changed |-> d.c.gl # gl]
            /\ rlast' = [rlast EXCEPT !.blend = opt_blend,
                                      !.toggles = d.toggles]
            /\ preBackup' = [preBackup EXCEPT !["buf"] = gl]
            /\ preCall' = gl
            /\ UNCHANGED <<surface, mutations, ib, storage>>

(***************************************************************************)
(* drawToSurface_ of Overdraw and of HighlightVisualizer, on the context   *)
(* and the visualizer surface.                                             *)
(***************************************************************************)
\* A GL call that sets state the model does not track (blendFunc,
\* blendEquation, colorMask, stencilMask, stencilFunc, stencilOp).
glCall(c, name) == [c EXCEPT !.calls = Append(@, <<name>>)]

\* drawFunction(): the replayed draw call lands in the bound framebuffer.
glDrawFunction(c, surf) ==
    [c |-> [c EXCEPT !.calls = Append(@, <<"drawFunction">>)],
     surf |-> IF c.gl.framebuffer = SurfaceFramebuffer
                 THEN [surf EXCEPT !.color = "drawn"]
                 ELSE surf]

\* An Overdraw.drawToSurface_ that does not look at FRAMEBUFFER_BINDING.
OverdrawDrawToSurfaceMutantAlways(c, surf) ==
    LET c1 == IBBindFramebuffer(c)
        c2 == glDisable(c1, "STENCIL_TEST")
        c3 == glEnable(c2, "BLEND")
    IN  glDrawFunction(glCall(glCall(glCall(c3, "blendFunc"),
                       "blendEquation"), "colorMask"), surf)

\* wtf.replay.graphics.Overdraw.prototype.drawToSurface_
OverdrawDrawToSurface_(c, surf) ==
    IF c.gl.framebuffer # 0 THEN [c |-> c, surf |-> surf]
    ELSE LET c1 == IBBindFramebuffer(c)
             c2 == glDisable(c1, "STENCIL_TEST")
             c3 == glEnable(c2, "BLEND")
             c4 == glCall(c3, "blendFunc")
             c5 == glCall(c4, "blendEquation")
             c6 == glCall(c5, "colorMask")
         IN  glDrawFunction(c6, surf)

\* wtf.replay.graphics.HighlightVisualizer.prototype.drawToSurface_
HighlightDrawToSurface_(c, surf, firstDraw_) ==
    IF c.gl.framebuffer # 0 THEN [c |-> c, surf |-> surf]
    ELSE LET c1 == IBBindFramebuffer(c)
             c2 == glEnable(c1, "BLEND")
             c3 == glCall(c2, "blendFunc")
             c4 == glCall(c3, "blendEquation")
             c5 == glEnable(c4, "STENCIL_TEST")
             c6 == IF firstDraw_
                   THEN LET d1 == glCall(c5, "colorMask")
                            d2 == glDisable(d1, "DEPTH_TEST")
                            d3 == glDisable(d2, "CULL_FACE")
                            d4 == glCall(d3, "stencilMask")
                            d5 == glCall(d4, "stencilFunc")
                        IN  glCall(d5, "stencilOp")
                   ELSE glCall(glCall(c5, "stencilFunc"), "stencilOp")
         IN  glDrawFunction(c6, surf)

\* A visualizer's drawToSurface_ as one step; lastCall.changed tells whether
\* the contents of the visualizer surface changed.
DrawToSurfaceStep(op, k) ==
    /\ gl' = k.c.gl
    /\ surface' = k.surf
    /\ lastCall' = [op |-> op, inst |-> "vis", calls |-> k.c.calls,
                    threw |-> FALSE, changed |-> k.surf # surface]
    /\ preCall' = gl
    /\ UNCHANGED <<webGLState, mutations, preBackup, resizeVars>>

overdrawDrawToSurface_ ==
    DrawToSurfaceStep("Overdraw.drawToSurface_",
                      OverdrawDrawToSurface_(Ctx(gl), surface))

highlightDrawToSurface_ ==
    \E firstDraw_ \in BOOLEAN :
        DrawToSurfaceStep("HighlightVisualizer.drawToSurface_",
                          HighlightDrawToSurface_(Ctx(gl), surface, firstDraw_))

(***************************************************************************)
(* SkipCallsVisualizer (skipcallsvisualizer.js): two visualizers, each     *)
(* bound to its own playback of the same trace.  The playback of the       *)
(* second one stays at the start of the step, so that no useProgram call   *)
(* is replayed to it.                                                      *)
(***************************************************************************)
\* Largest program handle of the trace.
MaxHandle == 12

\* Program handles of the trace; 0 is the handle applyToSubStep falls back on.
Handles == {0, 1, 2, MaxHandle}

Vis == {"a", "b"}

\* An omitted optional argument.
Undefined == -1

\* The events of the step playback is in.
CurrentStep ==
    << [name |-> "WebGLRenderingContext#useProgram", program |-> 1],
       [name |-> "WebGLRenderingContext#useProgram", program |-> 2],
       [name |-> "WebGLRenderingContext#drawArrays", program |-> 0],
       [name |-> "WebGLRenderingContext#useProgram", program |-> MaxHandle] >>

\* The positions playback v can be at in the step.
SubStepsOf(v) == IF v = "a" THEN 0 .. Len(CurrentStep) ELSE {0}

VARIABLES
    active,                   \* Visualizer.active
    latestProgramHandle_,     \* SkipCallsVisualizer.latestProgramHandle_
    skippedProgramHandles_    \* SkipCallsVisualizer.skippedProgramHandles_:
                              \* the elements that are set, by index

skipVars == <<active, latestProgramHandle_, skippedProgramHandles_>>

\* array[i], truthy.
Truthy(array, i) == i \in DOMAIN array /\ array[i]

\* array.length
ArrayLength(array) ==
    IF DOMAIN array = {} THEN 0
    ELSE 1 + CHOOSE m \in DOMAIN array : \A i \in DOMAIN array : i <= m

\* array[i] = value
ArraySet(array, i, value) ==
    [j \in DOMAIN array \cup {i} |-> IF j = i THEN value ELSE array[j]]

\* Array.prototype.join(',') of an array of numbers.
RECURSIVE Join(_)
Join(numbers) ==
    IF numbers = <<>> THEN ""
    ELSE IF Len(numbers) = 1 THEN ToString(numbers[1])
    ELSE ToString(numbers[1]) \o "," \o Join(Tail(numbers))

\* The loop of getStateHash from index i on.
RECURSIVE SkippedFrom(_, _)
SkippedFrom(array, i) ==
    IF i >= ArrayLength(array) THEN <<>>
    ELSE IF Truthy(array, i) THEN <<i>> \o SkippedFrom(array, i + 1)
    ELSE SkippedFrom(array, i + 1)

\* SkipCallsVisualizer.prototype.getStateHash
GetStateHash(isActive, array) ==
    IF ~isActive THEN ""
    ELSE Join(SkippedFrom(array, 0))

\* The post mutator of WebGLRenderingContext#useProgram
UseProgramPost(s, programHandle) ==
    [s EXCEPT !.latestProgramHandle_ = programHandle,
              !.skippedProgramHandles_ =
                  ArraySet(@, programHandle, Truthy(@, programHandle))]

\* opt_subStepIndex || currentSubStepIndex
OrCurrent(optSubStepIndex, currentSubStepIndex) ==
    IF optSubStepIndex = Undefined \/ optSubStepIndex = 0
    THEN currentSubStepIndex
    ELSE optSubStepIndex

\* The scan of applyToSubStep: the program of the latest useProgram among the
\* events of index i .. target - 1, `latest` when there is none.
RECURSIVE LatestUseProgram(_, _, _, _)
LatestUseProgram(events, i, target, latest) ==
    IF ~(i < target /\ i < Len(events))
    THEN latest
    ELSE LatestUseProgram(
             events, i + 1, target,
             IF events[i + 1].name = "WebGLRenderingContext#useProgram"
             THEN events[i + 1].program ELSE latest)

\* The assignment applyToSubStep ends with: the handle's entry is negated.
ToggleHandle(s, handle) ==
    [s EXCEPT !.skippedProgramHandles_ =
                  ArraySet(@, handle, ~Truthy(@, handle))]

\* SkipCallsVisualizer.prototype.applyToSubStep
ApplyToSubStep(s, events, currentSubStepIndex, optSubStepIndex) ==
    ToggleHandle(s, LatestUseProgram(
                        events, 0,
                        OrCurrent(optSubStepIndex, currentSubStepIndex), 0))

\* Playback replaying the events of index i .. target - 1: the post mutators
\* of every registered visualizer run.
RECURSIVE Replay(_, _, _, _)
Replay(s, events, i, target) ==
    IF ~(i < target /\ i < Len(events))
    THEN s
    ELSE Replay(IF events[i + 1].name = "WebGLRenderingContext#useProgram"
                THEN UseProgramPost(s, events[i + 1].program) ELSE s,
                events, i + 1, target)

\* SkipCallsVisualizer.prototype.restoreState
RestoreState(s, events, currentSubStepIndex) ==
    Replay([s EXCEPT !.active = FALSE], events, 0, currentSubStepIndex)

\* The fields of visualizer v, as a record.
VisualizerOf(v) ==
    [active |-> active[v],
     latestProgramHandle_ |-> latestProgramHandle_[v],
     skippedProgramHandles_ |-> skippedProgramHandles_[v]]

SetVisualizer(v, s) ==
    /\ active' = [active EXCEPT ![v] = s.active]
    /\ latestProgramHandle_' =
           [latestProgramHandle_ EXCEPT ![v] = s.latestProgramHandle_]
    /\ skippedProgramHandles_' =
           [skippedProgramHandles_ EXCEPT ![v] = s.skippedProgramHandles_]

\* new SkipCallsVisualizer(playback), twice.
InitSkipPart ==
    /\ active = [v \in Vis |-> FALSE]
    /\ latestProgramHandle_ = [v \in Vis |-> 0]
    /\ skippedProgramHandles_ = [v \in Vis |-> <<>>]

\* The visualizer is made the active one (trigger).
trigger ==
    \E v \in Vis :
        SetVisualizer(v, [VisualizerOf(v) EXCEPT !.active = TRUE])

\* Playback replays a useProgram call: the post mutator runs.
useProgramPost ==
    \E v \in {"a"}, programHandle \in Handles :
        SetVisualizer(v, UseProgramPost(VisualizerOf(v), programHandle))

applyToSubStep ==
    \E v \in Vis :
      \E currentSubStepIndex \in SubStepsOf(v),
         optSubStepIndex \in {Undefined} \cup (0 .. Len(CurrentStep)) :
        SetVisualizer(v, ApplyToSubStep(VisualizerOf(v), CurrentStep,
                                        currentSubStepIndex, optSubStepIndex))

restoreState ==
    \E v \in Vis :
      \E currentSubStepIndex \in SubStepsOf(v) :
        SetVisualizer(v, RestoreState(VisualizerOf(v), CurrentStep,
                                      currentSubStepIndex))

(***************************************************************************)
(* The first SkipCallsVisualizer bound to a playback with a cursor, over a *)
(* trace of two steps.  The cursor holds the index of the step and the     *)
(* number of events of that step playback has executed.                    *)
(***************************************************************************)
\* The events of the step before CurrentStep.
PreviousStep ==
    << [name |-> "WebGLRenderingContext#useProgram", program |-> 2],
       [name |-> "WebGLRenderingContext#drawArrays", program |-> 0] >>

\* The steps of the trace.
SkipSteps == <<PreviousStep, CurrentStep>>

VARIABLES
    splayback,   \* the cursor of playback: stepIndex, subStepEventIndex
    slast        \* history: the last operation, the cursor and the active
                 \* flag on its entry, and the playback calls it made

seekVars == <<splayback, slast>>

\* The events of the trace in the order playback executes them.
RECURSIVE EventsFrom(_)
EventsFrom(i) ==
    IF i > Len(SkipSteps) THEN <<>> ELSE SkipSteps[i] \o EventsFrom(i + 1)

\* The number of events of the trace executed when the cursor is at pb.
RECURSIVE EventsBefore(_)
EventsBefore(pb) ==
    IF pb.stepIndex = 0 THEN pb.subStepEventIndex
    ELSE Len(SkipSteps[pb.stepIndex])
             + EventsBefore([pb EXCEPT !.stepIndex = @ - 1])

\* A call of the visualizer on playback, with the active flag it was made
\* under.
PlaybackCall(call, argument, isActive) ==
    [call |-> call, argument |-> argument, active |-> isActive]

\* The visualizer, playback and the calls made on playback, taken together.
Seeking(calls) == [v |-> VisualizerOf("a"), pb |-> splayback, calls |-> calls]

\* Playback moves its cursor to pb: forward from where it is, or from the
\* start of the trace when pb lies before the cursor; the post mutators see
\* every event executed on the way.
SeekTo(w, pb, call) ==
    LET from == EventsBefore(w.pb)
        to == EventsBefore(pb)
    IN  [v |-> Replay(w.v, EventsFrom(1), IF to >= from THEN from ELSE 0, to),
         pb |-> pb,
         calls |-> Append(w.calls, call)]

\* playback.seekStep(index)
SkipSeekStep(w, index) ==
    SeekTo(w, [stepIndex |-> index, subStepEventIndex |-> 0],
           PlaybackCall("seekStep", index, w.v.active))

\* playback.seekSubStepEvent(index)
SkipSeekSubStepEvent(w, index) ==
    SeekTo(w, [w.pb EXCEPT !.subStepEventIndex = index],
           PlaybackCall("seekSubStepEvent", index, w.v.active))

\* A restoreState that replays first and clears the active flag last.
SkipRestoreStateMutantFlagLast(w) ==
    LET currentStepIndex == w.pb.stepIndex
        currentSubStepIndex == w.pb.subStepEventIndex
        sought == SkipSeekSubStepEvent(
                      SkipSeekStep(SkipSeekStep(w, 0), currentStepIndex),
                      currentSubStepIndex)
    IN  [sought EXCEPT !.v.active = FALSE]

\* SkipCallsVisualizer.prototype.restoreState, on playback with a cursor.
SkipRestoreState(w) ==
    LET inactive == [w EXCEPT !.v.active = FALSE]
        currentStepIndex == w.pb.stepIndex
        currentSubStepIndex == w.pb.subStepEventIndex
    IN  SkipSeekSubStepEvent(
            SkipSeekStep(SkipSeekStep(inactive, 0), currentStepIndex),
            currentSubStepIndex)

\* Playback at the start of the trace.
InitSeekPart ==
    /\ splayback = [stepIndex |-> 0, subStepEventIndex |-> 0]
    /\ slast = [op |-> "new", entry |-> splayback, wasActive |-> FALSE,
                calls |-> <<>>]

SetSeeking(w, op) ==
    /\ SetVisualizer("a", w.v)
    /\ splayback' = w.pb
    /\ slast' = [op |-> op, entry |-> splayback, wasActive |-> active["a"],
                 calls |-> w.calls]

\* The user moves playback to a step.
skipSeekStep ==
    \E index \in 0 .. (Len(SkipSteps) - 1) :
        SetSeeking(SkipSeekStep(Seeking(<<>>), index), "seekStep")

\* The user moves playback within the step.
skipSeekSubStepEvent ==
    \E index \in 0 .. Len(SkipSteps[splayback.stepIndex + 1]) :
        SetSeeking(SkipSeekSubStepEvent(Seeking(<<>>), index),
                   "seekSubStepEvent")

\* applyToSubStep() at the cursor.
skipApplyToSubStep ==
    \E optSubStepIndex \in
           {Undefined} \cup (0 .. Len(SkipSteps[splayback.stepIndex + 1])) :
        SetSeeking([Seeking(<<>>) EXCEPT
                       !.v = ApplyToSubStep(@,
                                 SkipSteps[splayback.stepIndex + 1],
                                 splayback.subStepEventIndex,
                                 optSubStepIndex)],
                   "applyToSubStep")

\* The visualizer is made the active one.
skipTrigger ==
    SetSeeking([Seeking(<<>>) EXCEPT !.v.active = TRUE], "trigger")

\* restoreState() at the cursor.
skipRestoreState ==
    SetSeeking(SkipRestoreState(Seeking(<<>>)), "restoreState")

(***************************************************************************)
(* ReplayFrame (replayframe.js) and FrameTimeVisualizer                    *)
(* (frametimevisualizer.js): the frame timing recorder.                    *)
(***************************************************************************)
\* Largest step index of the trace.
MaxStep == 2
\* Largest number of timing samples started.
MaxStarts == 3

Steps == 0 .. MaxStep

\* Visualizer state hashes playback reports: that of a playback without
\* active visualizer.
Hashes == {""}

VARIABLES
    latestStepIndex_,        \* FrameTimeVisualizer.latestStepIndex_
    latestExperimentHash_,   \* FrameTimeVisualizer.latestExperimentHash_
    frames_,                 \* FrameTimeVisualizer.frames_
    experiments_,            \* FrameTimeVisualizer.experiments_
    clock,                   \* the time wtf.now() returns next
    starts,                  \* number of startTiming() calls so far
    scenario                 \* history: progress through the 0, 1, 2 scenario

timeVars == <<latestStepIndex_, latestExperimentHash_, frames_, experiments_,
              clock, starts, scenario>>

\* null, as returned by getFrame.
Null == [null |-> TRUE]

\* new ReplayFrame(number)
ReplayFrame(number) ==
    [number_ |-> number, startTimes_ |-> <<>>, stopTimes_ |-> <<>>,
     durations_ |-> <<>>, totalDuration_ |-> 0, valid_ |-> FALSE,
     latestStartTime_ |-> 0, latestStopTime_ |-> 0]

\* A startTiming that keeps the start time of a sample already in flight.
StartTimingMutantKeepsFirst(f, now) ==
    IF f.valid_ THEN f ELSE [f EXCEPT !.latestStartTime_ = now, !.valid_ = TRUE]

\* ReplayFrame.prototype.startTiming, wtf.now() returning `now`.
StartTiming(f, now) == [f EXCEPT !.latestStartTime_ = now, !.valid_ = TRUE]

\* A stopTiming that keeps the latest duration as the total.
StopTimingMutantOverwritesTotal(f, now) ==
    IF ~f.valid_
    THEN f
    ELSE [f EXCEPT !.latestStopTime_ = now,
                   !.startTimes_ = Append(@, f.latestStartTime_),
                   !.stopTimes_ = Append(@, now),
                   !.durations_ = Append(@, now - f.latestStartTime_),
                   !.totalDuration_ = now - f.latestStartTime_,
                   !.valid_ = FALSE]

\* ReplayFrame.prototype.stopTiming, wtf.now() returning `now`.
StopTiming(f, now) ==
    IF ~f.valid_
    THEN f
    ELSE [f EXCEPT !.latestStopTime_ = now,
                   !.startTimes_ = Append(@, f.latestStartTime_),
                   !.stopTimes_ = Append(@, now),
                   !.durations_ = Append(@, now - f.latestStartTime_),
                   !.totalDuration_ = @ + (now - f.latestStartTime_),
                   !.valid_ = FALSE]

\* A cancelTiming that leaves the sample in flight.
CancelTimingMutantKeepsSample(f) == f

\* A cancelTiming that also drops the samples recorded before.
CancelTimingMutantDropsSamples(f) ==
    [f EXCEPT !.valid_ = FALSE, !.startTimes_ = <<>>, !.stopTimes_ = <<>>,
              !.durations_ = <<>>, !.totalDuration_ = 0]

\* ReplayFrame.prototype.cancelTiming
CancelTiming(f) == [f EXCEPT !.valid_ = FALSE]

\* FrameTimeVisualizer.prototype.getFrames
GetFrames(experimentId) ==
    IF experimentId \in DOMAIN frames_ THEN frames_[experimentId] ELSE <<>>

\* FrameTimeVisualizer.prototype.getFrame
GetFrame(experimentId, number) ==
    IF experimentId \notin DOMAIN frames_
    THEN Null
    ELSE IF number \in DOMAIN frames_[experimentId]
         THEN frames_[experimentId][number]
         ELSE Null

\* experiments_ once experiments_[hash] has been made an array if it was not.
WithExperiment(exps, hash) ==
    IF hash \in DOMAIN exps THEN exps ELSE exps @@ (hash :> <<>>)

\* A getCurrentFrame_ that makes a new ReplayFrame on every call.
GetCurrentFrameMutantRecreates(exps, hash, currentStepIndex) ==
    LET e == WithExperiment(exps, hash)
    IN  IF currentStepIndex \in DOMAIN e[hash]
        THEN [e EXCEPT ![hash][currentStepIndex] =
                           ReplayFrame(currentStepIndex)]
        ELSE [e EXCEPT ![hash] =
                 @ @@ (currentStepIndex :> ReplayFrame(currentStepIndex))]

\* getCurrentFrame_: experiments_ after the call; the frame returned is
\* experiments_[latestExperimentHash_][currentStepIndex].
GetCurrentFrame(exps, hash, currentStepIndex) ==
    LET e == WithExperiment(exps, hash)
    IN  IF currentStepIndex \in DOMAIN e[hash]
        THEN e
        ELSE [e EXCEPT ![hash] =
                 @ @@ (currentStepIndex :> ReplayFrame(currentStepIndex))]

\* getPreviousFrame_ returns a frame (not undefined).
HasPreviousFrame(exps, hash, stepIndex) ==
    hash \in DOMAIN exps /\ stepIndex \in DOMAIN exps[hash]

\* The history of the scenario "steps 0, 1, 2 start while playing, each
\* followed by the change to the next step, then PLAY_STOPPED before step 2
\* ends": its position (0 not begun, 6 completed and no sample started
\* since, 7 departed from), the experiment hash it runs under, and whether a
\* STEP_CHANGED arrived during play after it completed.
ScenarioAfter(event, playing, step) ==
    LET s == scenario.at
        next ==
            CASE event = "recordStart_" /\ playing ->
                    IF s \in {0, 2, 4} /\ step = s \div 2 THEN s + 1 ELSE 7
              [] event = "recordStart_" /\ ~playing ->
                    IF s \in {0, 6} THEN s ELSE 7
              [] event = "recordStop_" ->
                    IF s \in {1, 3} /\ playing THEN s + 1
                    ELSE IF s \in {0, 6} THEN s ELSE 7
              [] event = "playStopped" ->
                    IF s = 5 THEN 6 ELSE IF s \in {0, 6} THEN s ELSE 7
              [] OTHER ->
                    IF s \in {0, 6} THEN s ELSE 7
    IN  [at |-> next,
         hash |-> IF s = 0 THEN latestExperimentHash_ ELSE scenario.hash,
         stopsAfter |-> (next = 6 /\ s = 6
                         /\ (scenario.stopsAfter
                             \/ (event = "recordStop_" /\ playing)))]

\* new FrameTimeVisualizer(playback), playback reporting state hash `hash`.
InitTimingWith(hash) ==
    /\ latestStepIndex_ = -1
    /\ latestExperimentHash_ = hash
    /\ frames_ = <<>>
    /\ experiments_ = <<>>
    /\ clock = 0
    /\ starts = 0
    /\ scenario = [at |-> 0, hash |-> hash, stopsAfter |-> FALSE]

InitTimingPart == \E hash \in Hashes : InitTimingWith(hash)

TimingIdle == InitTimingWith("")

\* FrameTimeVisualizer.prototype.recordStart_ followed by updateStepIndex_,
\* playback being at step currentStepIndex.
RecordStart(playing, currentStepIndex) ==
    /\ playing => starts < MaxStarts
    /\ IF playing
       THEN LET e == GetCurrentFrame(experiments_, latestExperimentHash_,
                                     currentStepIndex)
            IN  /\ experiments_' =
                       [e EXCEPT ![latestExperimentHash_][currentStepIndex]
                                     = StartTiming(@, clock)]
                /\ clock' = clock + 1
                /\ starts' = starts + 1
       ELSE UNCHANGED <<experiments_, clock, starts>>
    /\ latestStepIndex_' = currentStepIndex
    /\ UNCHANGED <<latestExperimentHash_, frames_>>

\* FrameTimeVisualizer.prototype.recordStop_ (which, during play, also
\* notifies its own listeners with FRAMES_UPDATED).
RecordStop(playing) ==
    /\ IF playing
       THEN LET e == WithExperiment(experiments_, latestExperimentHash_)
                has == HasPreviousFrame(e, latestExperimentHash_,
                                        latestStepIndex_)
                recorded ==
                    has /\ e[latestExperimentHash_][latestStepIndex_].valid_
            IN  /\ experiments_' =
                       IF has
                       THEN [e EXCEPT
                                ![latestExperimentHash_][latestStepIndex_]
                                    = StopTiming(@, clock)]
                       ELSE e
                /\ clock' = IF recorded THEN clock + 1 ELSE clock
       ELSE UNCHANGED <<experiments_, clock>>
    /\ UNCHANGED <<latestStepIndex_, latestExperimentHash_, frames_, starts>>

\* The PLAY_STOPPED listener registered by the constructor.
PlayStopped ==
    LET e == WithExperiment(experiments_, latestExperimentHash_)
    IN  /\ experiments_' =
               IF HasPreviousFrame(e, latestExperimentHash_, latestStepIndex_)
               THEN [e EXCEPT ![latestExperimentHash_][latestStepIndex_]
                                  = CancelTiming(@)]
               ELSE e
        /\ UNCHANGED <<latestStepIndex_, latestExperimentHash_, frames_,
                       clock, starts>>

\* FrameTimeVisualizer.prototype.updateStateHash_, playback reporting state
\* hash `hash`.
UpdateStateHash(hash) ==
    /\ latestExperimentHash_' = hash
    /\ UNCHANGED <<latestStepIndex_, frames_, experiments_, clock, starts>>

\* STEP_STARTED
recordStart_ ==
    \E playing \in BOOLEAN, currentStepIndex \in Steps :
        /\ RecordStart(playing, currentStepIndex)
        /\ scenario' = ScenarioAfter("recordStart_", playing, currentStepIndex)

\* STEP_CHANGED
recordStop_ ==
    \E playing \in BOOLEAN :
        /\ RecordStop(playing)
        /\ scenario' = ScenarioAfter("recordStop_", playing, 0)

\* PLAY_STOPPED
playStopped ==
    /\ PlayStopped
    /\ scenario' = ScenarioAfter("playStopped", FALSE, 0)

\* VISUALIZER_STATE_CHANGED
updateStateHash_ ==
    \E hash \in Hashes :
        /\ UpdateStateHash(hash)
        /\ scenario' = ScenarioAfter("updateStateHash_", FALSE, 0)

(***************************************************************************)
(* The recorder under two experiments.  The history follows every timing   *)
(* sample by the events alone: the samples in flight, those in flight      *)
(* during which the experiment hash changed, the frames that hold a        *)
(* duration of such a sample, and the samples completed per frame.         *)
(***************************************************************************)
\* The steps played under the two experiments.
ExperimentSteps == {0, 1}

\* The state hashes of playback with no active visualizer and with one.
ExperimentHashes == {"", "1"}

VARIABLES samples

expVars == <<samples>>

NoSamples ==
    [open |-> {}, changed |-> {}, mixed |-> {},
     completed |-> [p \in ExperimentHashes \X ExperimentSteps |-> 0]]

ExperimentsIdle == samples = NoSamples

\* The frame the recorder's latest hash and step index name.
LatestFrame == <<latestExperimentHash_, latestStepIndex_>>

stepStarted ==
    \E playing \in BOOLEAN, currentStepIndex \in ExperimentSteps :
        /\ RecordStart(playing, currentStepIndex)
        /\ UNCHANGED scenario
        /\ samples' =
               IF playing
               THEN LET p == <<latestExperimentHash_, currentStepIndex>>
                    IN  [samples EXCEPT !.open = @ \cup {p},
                                        !.changed = @ \ {p}]
               ELSE samples

stepChanged ==
    \E playing \in BOOLEAN :
        /\ RecordStop(playing)
        /\ UNCHANGED scenario
        /\ samples' =
               IF playing /\ LatestFrame \in samples.open
               THEN [samples EXCEPT
                        !.open = @ \ {LatestFrame},
                        !.changed = @ \ {LatestFrame},
                        !.mixed = IF LatestFrame \in samples.changed
                                  THEN @ \cup {LatestFrame} ELSE @,
                        !.completed[LatestFrame] = @ + 1]
               ELSE samples

playStops ==
    /\ PlayStopped
    /\ UNCHANGED scenario
    /\ samples' = [samples EXCEPT !.open = @ \ {LatestFrame},
                                  !.changed = @ \ {LatestFrame}]

visualizerStateChanged ==
    \E hash \in ExperimentHashes :
        /\ UpdateStateHash(hash)
        /\ UNCHANGED scenario
        /\ samples' = [samples EXCEPT
                          !.changed = @ \cup {p \in samples.open :
                                                 p[1] # hash}]

(***************************************************************************)
(* One ReplayFrame under the calls of its recorder.                        *)
(***************************************************************************)
VARIABLES
    replayFrame, \* the ReplayFrame
    flast        \* history: the last call, the frame before it, whether
                 \* cancelTiming() was called with no startTiming() since,
                 \* the startTiming() calls since the last stopTiming() or
                 \* cancelTiming() after the call (pending) and before it
                 \* (found), and the time of the latest startTiming()

frameVars == <<replayFrame, flast>>

InitFramePart ==
    /\ replayFrame = ReplayFrame(0)
    /\ flast = [op |-> "new", before |-> ReplayFrame(0), cancelled |-> FALSE,
                pending |-> 0, found |-> 0, started |-> 0]

\* frame.startTiming(); wtf.now() has advanced by the time of the next call.
startTiming ==
    /\ starts < MaxStarts
    /\ replayFrame' = StartTiming(replayFrame, clock)
    /\ \E elapsed \in 1 .. 2 : clock' = clock + elapsed
    /\ starts' = starts + 1
    /\ flast' = [op |-> "startTiming", before |-> replayFrame,
                 cancelled |-> FALSE, pending |-> flast.pending + 1,
                 found |-> flast.pending, started |-> clock]
    /\ UNCHANGED <<latestStepIndex_, latestExperimentHash_, frames_,
                   experiments_, scenario>>

\* frame.stopTiming()
stopTiming ==
    /\ replayFrame' = StopTiming(replayFrame, clock)
    /\ clock' = IF replayFrame.valid_ THEN clock + 1 ELSE clock
    /\ flast' = [op |-> "stopTiming", before |-> replayFrame,
                 cancelled |-> flast.cancelled, pending |-> 0,
                 found |-> flast.pending, started |-> flast.started]
    /\ UNCHANGED <<latestStepIndex_, latestExperimentHash_, frames_,
                   experiments_, starts, scenario>>

\* frame.cancelTiming()
cancelTiming ==
    /\ replayFrame' = CancelTiming(replayFrame)
    /\ flast' = [op |-> "cancelTiming", before |-> replayFrame,
                 cancelled |-> TRUE, pending |-> 0, found |-> flast.pending,
                 started |-> flast.started]
    /\ UNCHANGED timeVars

(***************************************************************************)
(* The resize guard of HighlightVisualizer.trigger (skipcallsvisualizer.js *)
(* 826-907): the trigger as far as the contexts and the dimensions, the    *)
(* storage and the resize guard of the visualizer surfaces go.  The        *)
(* setContext mutator of the DrawCallVisualizer base class and Playback    *)
(* are not part of the sources; they follow the design document (sections  *)
(* 3, 4.2 and 4.4): a context is known from its first setContext on, and a *)
(* later setContext resizes its surfaces to the dimensions it carries.     *)
(***************************************************************************)
MaxContexts == 2
ContextHandles == 1 .. MaxContexts

\* The events of a step that matter here: setContext with the handle and the
\* dimensions of the context, and a draw call.
SetContextArgs(handle, width, height) ==
    [name |-> "wtf.webgl#setContext", handle |-> handle,
     width |-> width, height |-> height]

DrawArgs ==
    [name |-> "WebGLRenderingContext#drawArrays", handle |-> 0,
     width |-> 0, height |-> 0]

\* The steps playback can be bound to: context 1 is set, a context is set, a
\* call is drawn and a context is set once more, with dimensions of its own.
GuardSteps ==
    {<<SetContextArgs(1, 1, 1), SetContextArgs(second, 1, 1), DrawArgs,
       SetContextArgs(third, width, 1)>> :
         second \in ContextHandles, third \in ContextHandles, width \in Sizes}

VARIABLES
    gstep,       \* playback.getCurrentStep(): the events of the step
    gplayback,   \* the playback cursor: subStepEventIndex
    gvisualizer, \* contexts, latestContextHandle, completed, active and
                 \* visualizerSurfaces of the HighlightVisualizer
    glast        \* history: the last operation and the resize calls made
                 \* while trigger sought back to the original substep

guardVars == <<gstep, gplayback, gvisualizer, glast>>

GuardWorld == [pb |-> gplayback, hv |-> gvisualizer, resizes |-> <<>>]

\* A visualizer surface: the fields of the IntermediateBuffer and the
\* dimensions of its storage.
NoSurface ==
    [b |-> [width_ |-> 0, height_ |-> 0, resizeDisabled_ |-> FALSE],
     store |-> [color |-> <<0, 0>>, depth |-> <<0, 0>>]]

\* createSurface: new OverdrawSurface(gl, width, height, {stencil: true})
CreateSurface(width, height) ==
    [b |-> [width_ |-> width, height_ |-> height, resizeDisabled_ |-> FALSE],
     store |-> [color |-> <<width, height>>, depth |-> <<width, height>>]]

\* The surface after resize, and whether resize issued GL calls.
ResizedSurface(r) ==
    [v |-> [b |-> r.b, store |-> r.store], reallocated |-> r.c.calls # <<>>]

\* visualizerSurfaces[contextHandle].resize(width, height)
ResizeSurface(v, width, height) ==
    ResizedSurface(Resize(Ctx(DefaultGL), NewWebGLState, v.b,
                          [color |-> "drawn", depth |-> "drawn"], v.store,
                          width, height))

\* The visualizer after the surface of a known context was resized.
SetContextResized(w, e, old, r) ==
    [w EXCEPT !.hv.visualizerSurfaces[e.handle] = r.v,
              !.hv.latestContextHandle = e.handle,
              !.resizes =
                  Append(@, [handle |-> e.handle,
                             disabled |-> old.b.resizeDisabled_,
                             differs |-> <<old.b.width_, old.b.height_>>
                                           # <<e.width, e.height>>,
                             reallocated |-> r.reallocated])]

\* The post mutator of wtf.webgl#setContext.
SetContextPost(w, e) ==
    IF e.handle \in w.hv.contexts
    THEN SetContextResized(
             w, e, w.hv.visualizerSurfaces[e.handle],
             ResizeSurface(w.hv.visualizerSurfaces[e.handle],
                           e.width, e.height))
    ELSE [w EXCEPT !.hv.contexts = @ \cup {e.handle},
                   !.hv.visualizerSurfaces[e.handle] =
                       CreateSurface(e.width, e.height),
                   !.hv.latestContextHandle = e.handle]

\* Playback executes the events after the cursor up to the one of index
\* target; the mutators run after each call.
RECURSIVE GuardPlayTo(_, _, _)
GuardPlayTo(w, events, target) ==
    LET next == w.pb.subStepEventIndex + 1
        at == [w EXCEPT !.pb.subStepEventIndex = next]
    IN  IF next > target \/ next >= Len(events)
        THEN w
        ELSE GuardPlayTo(
                 IF events[next + 1].name = "wtf.webgl#setContext"
                 THEN SetContextPost(at, events[next + 1]) ELSE at,
                 events, target)

\* playback.seekSubStepEvent: forward from the cursor, or from the start of
\* the step when the target lies before the cursor.
GuardSeekSubStepEvent(w, events, target) ==
    GuardPlayTo(IF target < w.pb.subStepEventIndex
                THEN [w EXCEPT !.pb.subStepEventIndex = -1] ELSE w,
                events, target)

\* restoreState: the step is replayed from its start to the cursor.
GuardRestoreState(w, events) ==
    GuardPlayTo([w EXCEPT !.pb.subStepEventIndex = -1, !.hv.active = FALSE],
                events, w.pb.subStepEventIndex)

\* A guard on the surface of the latest context only.
DisableResizeMutantLatestOnly(w) ==
    [w EXCEPT !.hv.visualizerSurfaces =
        [h \in ContextHandles |->
            IF h = w.hv.latestContextHandle
            THEN [@[h] EXCEPT !.b.resizeDisabled_ = TRUE] ELSE @[h]]]

\* trigger, 865-868: disableResize() on the surface of every context.
DisableResize(w) ==
    [w EXCEPT !.hv.visualizerSurfaces =
        [h \in ContextHandles |->
            IF h \in w.hv.contexts
            THEN [@[h] EXCEPT !.b.resizeDisabled_ = TRUE] ELSE @[h]]]

\* trigger, 878-904: enableResize() on the surface of every context.
EnableResize(w) ==
    [w EXCEPT !.hv.visualizerSurfaces =
        [h \in ContextHandles |->
            IF h \in w.hv.contexts
            THEN [@[h] EXCEPT !.b.resizeDisabled_ = FALSE] ELSE @[h]]]

\* trigger, 865-904: the resize guard is set on every surface, playback
\* seeks back to the original substep, and the guard is lifted.
GuardSeekBack(guarded, events, currentSubStepIndex) ==
    [w |-> [EnableResize(GuardSeekSubStepEvent(guarded, events,
                                               currentSubStepIndex))
                EXCEPT !.hv.completed = TRUE],
     abandoned |-> FALSE, guarded |-> guarded.hv]

\* trigger, 848-863: abandoned when no context is known before the call;
\* otherwise playback seeks to the call.
GuardTriggerAt(before, events, index, currentSubStepIndex) ==
    IF before.hv.latestContextHandle = 0
    THEN [w |-> [before EXCEPT !.hv.completed = TRUE],
          abandoned |-> TRUE, guarded |-> before.hv]
    ELSE GuardSeekBack(
             [DisableResize(GuardSeekSubStepEvent(before, events, index))
                 EXCEPT !.resizes = <<>>],
             events, currentSubStepIndex)

\* trigger, 832-846: the visualizer is active, the cursor is remembered
\* and playback seeks from the start of the step to the call before.
GuardTriggerFrom(restored, events, index) ==
    GuardTriggerAt(
        GuardSeekSubStepEvent(
            [restored EXCEPT !.hv.active = TRUE,
                             !.pb.subStepEventIndex = -1],
            events, index - 1),
        events, index, restored.pb.subStepEventIndex)

\* HighlightVisualizer.prototype.trigger; guarded is the visualizer as the
\* seek back to the original substep found it.
GuardTrigger(w, events, index) ==
    GuardTriggerFrom(
        IF w.hv.completed THEN GuardRestoreState(w, events) ELSE w,
        events, index)

InitGuardWith(events) ==
    /\ gstep = events
    /\ gplayback = [subStepEventIndex |-> -1]
    /\ gvisualizer = [active |-> FALSE, completed |-> FALSE,
                      latestContextHandle |-> 0, contexts |-> {},
                      visualizerSurfaces |->
                          [h \in ContextHandles |-> NoSurface]]
    /\ glast = [op |-> "new", index |-> 0, abandoned |-> FALSE,
                guarded |-> gvisualizer, resizes |-> <<>>]

InitGuardPart == \E events \in GuardSteps : InitGuardWith(events)

GuardIdle == InitGuardWith(CHOOSE events \in GuardSteps : TRUE)

\* The user moves the cursor within the step.
guardSeekSubStepEvent ==
    \E target \in -1 .. (Len(gstep) - 1) :
        LET w == GuardSeekSubStepEvent(GuardWorld, gstep, target)
        IN  /\ gplayback' = w.pb
            /\ gvisualizer' = w.hv
            /\ glast' = [op |-> "seekSubStepEvent", index |-> 0,
                         abandoned |-> FALSE, guarded |-> w.hv,
                         resizes |-> <<>>]
            /\ UNCHANGED gstep

\* The user asks for the call of an index to be highlighted.
guardTrigger ==
    \E index \in 0 .. (Len(gstep) - 1) :
        LET t == GuardTrigger(GuardWorld, gstep, index)
        IN  /\ gplayback' = t.w.pb
            /\ gvisualizer' = t.w.hv
            /\ glast' = [op |-> "trigger", index |-> index,
                         abandoned |-> t.abandoned, guarded |-> t.guarded,
                         resizes |-> t.w.resizes]
            /\ UNCHANGED gstep

(***************************************************************************)
(* The replace mutators of SkipCallsVisualizer (skipcallsvisualizer.js     *)
(* 240-315) and applyToSubStep (368-400) under a playback that executes    *)
(* the trace call by call.  Playback is not part of the sources: it        *)
(* executes the calls in trace order, asks the replace mutator of a call   *)
(* in its place and runs the post mutator after it, and a seek to a step   *)
(* that lies before the cursor starts over from the start of the trace.    *)
(***************************************************************************)
\* The calls whose replace mutator is handleDrawCall_.
DrawCallNames ==
    {"WebGLRenderingContext#drawArrays",
     "WebGLRenderingContext#drawElements",
     "ANGLEInstancedArrays#drawArraysInstancedANGLE",
     "ANGLEInstancedArrays#drawElementsInstancedANGLE"}

\* The calls whose replace mutator returns false.
KeptCallNames ==
    {"WebGLRenderingContext#createBuffer",
     "WebGLRenderingContext#bindBuffer",
     "WebGLRenderingContext#bufferData",
     "WebGLRenderingContext#vertexAttribPointer",
     "WebGLRenderingContext#clear"}

\* A call of the trace, with the handle a useProgram call carries.
TraceCall(name, handle) == [name |-> name, program |-> handle]

\* The steps of the trace: the draw calls the second step starts with are
\* governed by the useProgram call of the first.
ReplaceSteps ==
    << << TraceCall("WebGLRenderingContext#useProgram", 1),
          TraceCall("WebGLRenderingContext#createBuffer", 0),
          TraceCall("WebGLRenderingContext#bindBuffer", 0),
          TraceCall("WebGLRenderingContext#bufferData", 0),
          TraceCall("WebGLRenderingContext#vertexAttribPointer", 0),
          TraceCall("WebGLRenderingContext#clear", 0),
          TraceCall("WebGLRenderingContext#drawArrays", 0) >>,
       << TraceCall("ANGLEInstancedArrays#drawArraysInstancedANGLE", 0),
          TraceCall("WebGLRenderingContext#drawElements", 0),
          TraceCall("WebGLRenderingContext#useProgram", 2),
          TraceCall("ANGLEInstancedArrays#drawElementsInstancedANGLE", 0) >> >>

\* No useProgram call was replayed yet.
NoProgram == -1

VARIABLES
    rplayback,   \* the cursor of playback: the index of the step and the
                 \* number of calls of the step that were executed
    replaced     \* history: the last operation; for a replayed call its name
                 \* and what its replace mutator returned; the program of
                 \* the latest useProgram call replayed; for applyToSubStep
                 \* its argument, the cursor and skippedProgramHandles_ as
                 \* it found them

replaceVars == <<rplayback, replaced>>

\* A handleDrawCall_ that skips as soon as any program is skipped.
HandleDrawCallMutantAnySkipped(s) ==
    \E i \in DOMAIN s.skippedProgramHandles_ :
        Truthy(s.skippedProgramHandles_, i)

\* SkipCallsVisualizer.prototype.handleDrawCall_, as a boolean.
HandleDrawCall_(s) ==
    Truthy(s.skippedProgramHandles_, s.latestProgramHandle_)

\* The replace mutator registered for a call, where one is registered:
\* whether the call is skipped.
ReplaceMutator(s, name) ==
    IF name \in DrawCallNames THEN HandleDrawCall_(s)
    ELSE FALSE

\* The calls of the trace in the order playback executes them.
RECURSIVE ReplaceEventsFrom(_)
ReplaceEventsFrom(i) ==
    IF i > Len(ReplaceSteps) THEN <<>>
    ELSE ReplaceSteps[i] \o ReplaceEventsFrom(i + 1)

\* The number of calls of the trace before the start of step index k.
RECURSIVE CallsBeforeStep(_)
CallsBeforeStep(k) ==
    IF k = 0 THEN 0 ELSE Len(ReplaceSteps[k]) + CallsBeforeStep(k - 1)

\* The number of calls of the trace executed when the cursor is at pb.
CallsBefore(pb) == CallsBeforeStep(pb.stepIndex) + pb.subStepEventIndex

InitReplacePart ==
    /\ rplayback = [stepIndex |-> 0, subStepEventIndex |-> 0]
    /\ replaced = [op |-> "new", name |-> "", skip |-> FALSE,
                   recent |-> NoProgram, opt |-> Undefined,
                   entry |-> rplayback, before |-> <<>>]

ReplaceIdle == InitReplacePart

\* Playback executes the next call of the trace: its replace mutator is
\* asked, and its post mutator runs.
replayCall ==
    /\ CallsBefore(rplayback) < Len(ReplaceEventsFrom(1))
    /\ LET e == ReplaceEventsFrom(1)[CallsBefore(rplayback) + 1]
           s == VisualizerOf("a")
           isUseProgram == e.name = "WebGLRenderingContext#useProgram"
       IN  /\ SetVisualizer("a", IF isUseProgram
                                 THEN UseProgramPost(s, e.program) ELSE s)
           /\ rplayback' =
                  IF rplayback.subStepEventIndex
                         < Len(ReplaceSteps[rplayback.stepIndex + 1])
                  THEN [rplayback EXCEPT !.subStepEventIndex = @ + 1]
                  ELSE [stepIndex |-> rplayback.stepIndex + 1,
                        subStepEventIndex |-> 1]
           /\ replaced' = [op |-> "replay", name |-> e.name,
                           skip |-> ReplaceMutator(s, e.name),
                           recent |-> IF isUseProgram THEN e.program
                                      ELSE replaced.recent,
                           opt |-> Undefined, entry |-> rplayback,
                           before |-> s.skippedProgramHandles_]

\* playback.seekStep(index): forward from the cursor, or from the start of
\* the trace; the post mutators see every call executed on the way.
replaceSeekStep ==
    \E index \in 0 .. (Len(ReplaceSteps) - 1) :
        LET s == VisualizerOf("a")
            to == CallsBeforeStep(index)
            from == IF to >= CallsBefore(rplayback)
                    THEN CallsBefore(rplayback) ELSE 0
        IN  /\ SetVisualizer("a", Replay(s, ReplaceEventsFrom(1), from, to))
            /\ rplayback' = [stepIndex |-> index, subStepEventIndex |-> 0]
            /\ replaced' = [op |-> "seekStep", name |-> "", skip |-> FALSE,
                            recent |-> LatestUseProgram(
                                           ReplaceEventsFrom(1), from, to,
                                           replaced.recent),
                            opt |-> Undefined, entry |-> rplayback,
                            before |-> s.skippedProgramHandles_]

\* applyToSubStep(opt_subStepIndex) at the cursor.
replaceApplyToSubStep ==
    \E optSubStepIndex \in
           {Undefined}
               \cup (0 .. (Len(ReplaceSteps[rplayback.stepIndex + 1]) - 1)) :
        LET s == VisualizerOf("a")
        IN  /\ SetVisualizer("a", ApplyToSubStep(
                                      s, ReplaceSteps[rplayback.stepIndex + 1],
                                      rplayback.subStepEventIndex,
                                      optSubStepIndex))
            /\ replaced' = [op |-> "applyToSubStep", name |-> "",
                            skip |-> FALSE, recent |-> replaced.recent,
                            opt |-> optSubStepIndex, entry |-> rplayback,
                            before |-> s.skippedProgramHandles_]
            /\ UNCHANGED rplayback

(***************************************************************************)
(* Overdraw.prototype.trigger (unnamed/part_003 241-316) with its toggle   *)
(* between views.  Playback and the DrawCallVisualizer base class are not  *)
(* part of the sources; they follow the design document: playback executes *)
(* the calls in trace order and starts over when it seeks backwards, the   *)
(* setContext mutator records the context, the draw calls are wrapped by   *)
(* handleDrawCall, and restoreState replays the trace from its start to    *)
(* the cursor with the visualizer inactive.                                *)
(***************************************************************************)
OverdrawCall(name, handle) == [name |-> name, handle |-> handle]

\* The steps of the trace.
OverdrawSteps ==
    << << OverdrawCall("wtf.webgl#setContext", 1),
          OverdrawCall("WebGLRenderingContext#drawArrays", 0),
          OverdrawCall("wtf.webgl#setContext", 2) >>,
       << OverdrawCall("WebGLRenderingContext#drawArrays", 0),
          OverdrawCall("WebGLRenderingContext#drawArrays", 0) >> >>

VARIABLES
    oplayback,   \* the cursor of playback: the index of the step and the
                 \* index of the last call of the step that was executed
    overdraw,    \* the Overdraw visualizer
    olast        \* history: the last operation; for trigger the path it
                 \* took, the calls of playback.finishVisualizer, the
                 \* VISIBILITY_CHANGED events and the calculateOverdraw calls
                 \* it made, the cursor and visible_ on entry, and whether
                 \* the operation before it was a trigger that found a
                 \* context

overdrawVars == <<oplayback, overdraw, olast>>

\* Playback and the visualizer, with what the operation under way has
\* called and emitted.
OverdrawWorld ==
    [pb |-> oplayback, ov |-> overdraw, path |-> "", finished |-> 0,
     emitted |-> 0, computed |-> 0]

\* The calls of the trace in the order playback executes them.
RECURSIVE OverdrawEventsFrom(_)
OverdrawEventsFrom(i) ==
    IF i > Len(OverdrawSteps) THEN <<>>
    ELSE OverdrawSteps[i] \o OverdrawEventsFrom(i + 1)

\* The number of calls of the trace executed when the cursor is at pb.
RECURSIVE OverdrawCallsBefore(_)
OverdrawCallsBefore(pb) ==
    IF pb.stepIndex = 0 THEN pb.subStepEventIndex + 1
    ELSE Len(OverdrawSteps[pb.stepIndex])
             + OverdrawCallsBefore([stepIndex |-> pb.stepIndex - 1,
                                    subStepEventIndex |-> -1])

\* Overdraw.prototype.handleDrawCall, as far as the fields of the
\* visualizer go.
OverdrawHandleDrawCall(ov) ==
    IF ~ov.active THEN [ov EXCEPT !.previousVisibility_ = FALSE] ELSE ov

\* The mutators of the visualizer for one call.
OverdrawMutators(ov, e) ==
    IF e.name = "wtf.webgl#setContext"
    THEN [ov EXCEPT !.latestContextHandle = e.handle,
                    !.contexts = @ \cup {e.handle}]
    ELSE OverdrawHandleDrawCall(ov)

\* Playback executes the calls of index i .. target - 1 of the trace.
RECURSIVE OverdrawReplay(_, _, _)
OverdrawReplay(ov, i, target) ==
    IF ~(i < target /\ i < Len(OverdrawEventsFrom(1)))
    THEN ov
    ELSE OverdrawReplay(OverdrawMutators(ov, OverdrawEventsFrom(1)[i + 1]),
                        i + 1, target)

\* Playback moves its cursor to pb: forward from where it is, or from the
\* start of the trace when pb lies before the cursor.
OverdrawSeek(w, pb) ==
    [w EXCEPT !.ov = OverdrawReplay(
                         @,
                         IF OverdrawCallsBefore(pb) >= OverdrawCallsBefore(w.pb)
                         THEN OverdrawCallsBefore(w.pb) ELSE 0,
                         OverdrawCallsBefore(pb)),
              !.pb = pb]

\* DrawCallVisualizer.prototype.restoreState
OverdrawBaseRestoreState(w) ==
    [w EXCEPT !.ov = OverdrawReplay(
                         [@ EXCEPT !.active = FALSE, !.modifyDraws = FALSE],
                         0, OverdrawCallsBefore(w.pb))]

\* Overdraw.prototype.restoreState
OverdrawRestoreState(w) ==
    [OverdrawBaseRestoreState(w) EXCEPT !.ov.visible_ = FALSE,
                                        !.emitted = @ + 1]

\* Overdraw.prototype.drawOverdraw, once for each of n contexts.
RECURSIVE DrawOverdrawEach(_, _)
DrawOverdrawEach(w, n) ==
    IF n = 0 THEN w
    ELSE DrawOverdrawEach([w EXCEPT !.ov.visible_ = TRUE,
                                    !.emitted = @ + 1], n - 1)

\* Overdraw.prototype.reset
OverdrawReset(w) == [w EXCEPT !.ov.modifyDraws = FALSE]

\* trigger, 252-271: the toggle between views.
OverdrawToggle(w) ==
    IF w.ov.previousVisibility_
    THEN [OverdrawRestoreState(w) EXCEPT !.ov.previousVisibility_ = FALSE,
                                         !.path = "toggle",
                                         !.finished = @ + 1]
    ELSE [DrawOverdrawEach(w, Cardinality(w.ov.contexts))
              EXCEPT !.ov.previousVisibility_ = TRUE,
                     !.path = "toggle",
                     !.finished = @ + 1]

\* trigger, 291-315: the overdraw of every context is calculated and shown.
OverdrawShow(sought, current) ==
    [DrawOverdrawEach(sought, Cardinality(sought.ov.contexts))
         EXCEPT !.computed = @ + Cardinality(sought.ov.contexts),
                !.ov.latestOverdraws = sought.ov.contexts,
                !.ov.latestStepIndex_ = current.stepIndex,
                !.ov.latestSubStepIndex_ = current.subStepEventIndex,
                !.ov.previousVisibility_ = TRUE,
                !.path = "full",
                !.finished = @ + 1]

\* trigger, 273-279: the surfaces are cleared and the step is replayed with
\* modified draws.
OverdrawRecompute(w) ==
    OverdrawShow(
        OverdrawSeek(
            [OverdrawSeek([OverdrawReset(w) EXCEPT !.ov.active = TRUE],
                          [w.pb EXCEPT !.subStepEventIndex = -1])
                 EXCEPT !.ov.modifyDraws = TRUE],
            w.pb),
        w.pb)

\* A trigger that returns without a word when no context is known.
OverdrawTriggerMutantSilentAbandon(w) ==
    IF w.ov.latestContextHandle = 0
    THEN [w EXCEPT !.path = "abandon"]
    ELSE IF /\ w.pb.stepIndex = w.ov.latestStepIndex_
            /\ w.pb.subStepEventIndex = w.ov.latestSubStepIndex_
    THEN OverdrawToggle(w)
    ELSE OverdrawRecompute(w)

\* A trigger that calculates the overdraw anew whenever it is asked.
OverdrawTriggerMutantAlwaysRecomputes(w) ==
    IF w.ov.latestContextHandle = 0
    THEN [w EXCEPT !.path = "abandon", !.finished = @ + 1]
    ELSE OverdrawRecompute(w)

\* Overdraw.prototype.trigger
OverdrawTrigger(w) ==
    IF w.ov.latestContextHandle = 0
    THEN [w EXCEPT !.path = "abandon", !.finished = @ + 1]
    ELSE IF /\ w.pb.stepIndex = w.ov.latestStepIndex_
            /\ w.pb.subStepEventIndex = w.ov.latestSubStepIndex_
    THEN OverdrawToggle(w)
    ELSE OverdrawRecompute(w)

\* new Overdraw(playback), playback at the start of the trace.
InitOverdrawPart ==
    /\ oplayback = [stepIndex |-> 0, subStepEventIndex |-> -1]
    /\ overdraw = [active |-> FALSE, modifyDraws |-> FALSE,
                   latestContextHandle |-> 0, contexts |-> {},
                   latestStepIndex_ |-> -1, latestSubStepIndex_ |-> -1,
                   latestOverdraws |-> {}, visible_ |-> FALSE,
                   previousVisibility_ |-> FALSE]
    /\ olast = [op |-> "new", path |-> "", finished |-> 0, emitted |-> 0,
                computed |-> 0, entry |-> oplayback, wasVisible |-> FALSE,
                follows |-> FALSE]

OverdrawIdle == InitOverdrawPart

\* The user moves playback to a call of a step.
overdrawSeek ==
    \E stepIndex \in 0 .. (Len(OverdrawSteps) - 1) :
      \E index \in -1 .. (Len(OverdrawSteps[stepIndex + 1]) - 1) :
        LET w == OverdrawSeek(OverdrawWorld,
                              [stepIndex |-> stepIndex,
                               subStepEventIndex |-> index])
        IN  /\ oplayback' = w.pb
            /\ overdraw' = w.ov
            /\ olast' = [op |-> "seek", path |-> "", finished |-> 0,
                         emitted |-> 0, computed |-> 0, entry |-> oplayback,
                         wasVisible |-> overdraw.visible_,
                         follows |-> FALSE]

\* The user asks for the overdraw.
overdrawTrigger ==
    LET w == OverdrawTrigger(OverdrawWorld)
    IN  /\ oplayback' = w.pb
        /\ overdraw' = w.ov
        /\ olast' = [op |-> "trigger", path |-> w.path,
                     finished |-> w.finished, emitted |-> w.emitted,
                     computed |-> w.computed, entry |-> oplayback,
                     wasVisible |-> overdraw.visible_,
                     follows |-> olast.op = "trigger"
                                     /\ olast.path # "abandon"]

\* Overdraw.prototype.drawOverdraw(surface), called from outside trigger.
overdrawDrawOverdraw ==
    LET w == DrawOverdrawEach(OverdrawWorld, 1)
    IN  /\ oplayback' = w.pb
        /\ overdraw' = w.ov
        /\ olast' = [op |-> "drawOverdraw", path |-> "",
                     finished |-> w.finished, emitted |-> w.emitted,
                     computed |-> w.computed, entry |-> oplayback,
                     wasVisible |-> overdraw.visible_, follows |-> FALSE]

\* Overdraw.prototype.restoreState(), called from outside trigger.
overdrawRestoreState ==
    LET w == OverdrawRestoreState(OverdrawWorld)
    IN  /\ oplayback' = w.pb
        /\ overdraw' = w.ov
        /\ olast' = [op |-> "restoreState", path |-> "",
                     finished |-> w.finished, emitted |-> w.emitted,
                     computed |-> w.computed, entry |-> oplayback,
                     wasVisible |-> overdraw.visible_, follows |-> FALSE]

(***************************************************************************)
(* Highlight.prototype.processLinkProgram and deleteProgram                *)
(* (unnamed/part_002 364-396): the Program records of a visualizer, by     *)
(* program handle, and the program objects of the context.                 *)
(***************************************************************************)
\* The program handles of the trace.
RelinkHandles == {1, 2, 3}

\* No Program record under a handle.
NoRecord == [present |-> FALSE, variants_ |-> [n \in VariantNames |-> 0],
             keys |-> <<>>]

VARIABLES
    hprograms,   \* programs_: the Program record of every handle
    hlive,       \* the program objects of the context
    hlinked      \* history: the last call, its handle, whether the handle
                 \* had a record and the variant programs of that record

relinkVars == <<hprograms, hlive, hlinked>>

\* The variant programs a Program record holds.
VariantsOf(record) == {record.variants_[n] : n \in VariantNames} \ {0}

\* new Program(originalProgram, gl) in a context with the program objects
\* live.
NewProgram(live) ==
    PCall(NoRecord,
          [current |-> OriginalProgram, live |-> live,
           uvalue |-> [p \in ProgramIds |-> <<>>]])

\* goog.dispose(obj) calls obj.dispose() where obj has such a method.  The
\* Program record (unnamed/part_002 550-853) has none: the context is left
\* as it is.
GoogDispose(live, record) == live

\* Highlight.prototype.deleteProgram
HighlightDeleteProgram(w, programHandle) ==
    [programs_ |-> [w.programs_ EXCEPT ![programHandle] = NoRecord],
     live |-> GoogDispose(w.live, w.programs_[programHandle])]

\* processLinkProgram, 376-384: the new record and its 'highlight' variant.
LinkedProgram(w, programHandle, c) ==
    [programs_ |-> [w.programs_ EXCEPT
                        ![programHandle] = [present |-> TRUE,
                                            variants_ |-> c.variants_,
                                            keys |-> c.keys]],
     live |-> c.live]

\* Highlight.prototype.processLinkProgram
ProcessLinkProgram(w, programHandle) ==
    IF w.programs_[programHandle].present
    THEN LinkedProgram(
             HighlightDeleteProgram(w, programHandle), programHandle,
             CreateVariantProgram(
                 NewProgram(HighlightDeleteProgram(w, programHandle).live),
                 "highlight", "", "highlightFragmentSource"))
    ELSE LinkedProgram(
             w, programHandle,
             CreateVariantProgram(NewProgram(w.live), "highlight", "",
                                  "highlightFragmentSource"))

\* new Highlight(): no Program records; the context holds the program of
\* the application.
InitRelinkPart ==
    /\ hprograms = [h \in RelinkHandles |-> NoRecord]
    /\ hlive = {OriginalProgram}
    /\ hlinked = [op |-> "new", handle |-> 0, had |-> FALSE, previous |-> {}]

RelinkIdle == InitRelinkPart

\* The trace links the program of a handle; the context has a program object
\* to give.
processLinkProgram ==
    \E programHandle \in RelinkHandles :
        /\ hlive # ProgramIds
        /\ LET w == ProcessLinkProgram([programs_ |-> hprograms,
                                        live |-> hlive], programHandle)
           IN  /\ hprograms' = w.programs_
               /\ hlive' = w.live
               /\ hlinked' = [op |-> "processLinkProgram",
                              handle |-> programHandle,
                              had |-> hprograms[programHandle].present,
                              previous |->
                                  VariantsOf(hprograms[programHandle])]

\* The record of a handle is deleted.
deleteProgram ==
    \E programHandle \in RelinkHandles :
        LET w == HighlightDeleteProgram([programs_ |-> hprograms,
                                         live |-> hlive], programHandle)
        IN  /\ hprograms' = w.programs_
            /\ hlive' = w.live
            /\ hlinked' = [op |-> "deleteProgram",
                           handle |-> programHandle,
                           had |-> hprograms[programHandle].present,
                           previous |-> VariantsOf(hprograms[programHandle])]

(***************************************************************************)
(* Specifications: one per component, the other components at rest.        *)
(***************************************************************************)
\* The components that start from one state only.
lateVars == <<replaceVars, overdrawVars, relinkVars>>

LateIdle == ReplaceIdle /\ OverdrawIdle /\ RelinkIdle

vars == <<glVars, progVars, timeVars, skipVars, hlVars, seekVars, resizeVars,
         slotVars, msgVars, guardVars, frameVars, expVars,
        lateVars>>

InitGL ==
    InitGLPart
        /\ ProgramIdle
        /\ TimingIdle
        /\ InitSkipPart
        /\ HighlightIdle
        /\ InitSeekPart
        /\ ResizeIdle
        /\ SlotIdle
        /\ MessageIdle
        /\ GuardIdle
        /\ InitFramePart
        /\ ExperimentsIdle
        /\ LateIdle

RestGL == UNCHANGED <<progVars, timeVars, skipVars, hlVars, seekVars,
                         resizeVars,
                         slotVars, msgVars, guardVars, frameVars, expVars,
        lateVars>>

NextGL ==
    \/ enable /\ RestGL
    \/ disable /\ RestGL
    \/ activeTexture /\ RestGL
    \/ bindTexture /\ RestGL
    \/ bindFramebuffer /\ RestGL
    \/ backup /\ RestGL
    \/ restore /\ RestGL
    \/ clear /\ RestGL

SpecGL == InitGL /\ [][NextGL]_vars

InitProgram ==
    InitGLPart
        /\ InitProgramPart
        /\ TimingIdle
        /\ InitSkipPart
        /\ HighlightIdle
        /\ InitSeekPart
        /\ ResizeIdle
        /\ SlotIdle
        /\ MessageIdle
        /\ GuardIdle
        /\ InitFramePart
        /\ ExperimentsIdle
        /\ LateIdle

RestProgram == UNCHANGED <<glVars, timeVars, skipVars, hlVars, seekVars,
                         resizeVars,
                         slotVars, msgVars, guardVars, frameVars, expVars,
        lateVars>>

NextProgram ==
    \/ createVariantProgram /\ RestProgram
    \/ deleteVariants /\ RestProgram
    \/ drawWithVariant /\ RestProgram
    \/ useProgram /\ RestProgram

SpecProgram == InitProgram /\ [][NextProgram]_vars

InitTiming ==
    InitGLPart
        /\ ProgramIdle
        /\ InitTimingPart
        /\ InitSkipPart
        /\ HighlightIdle
        /\ InitSeekPart
        /\ ResizeIdle
        /\ SlotIdle
        /\ MessageIdle
        /\ GuardIdle
        /\ InitFramePart
        /\ ExperimentsIdle
        /\ LateIdle

RestTiming == UNCHANGED <<glVars, progVars, skipVars, hlVars, seekVars,
                         resizeVars,
                         slotVars, msgVars, guardVars, frameVars, expVars,
        lateVars>>

NextTiming ==
    \/ recordStart_ /\ RestTiming
    \/ recordStop_ /\ RestTiming
    \/ playStopped /\ RestTiming
    \/ updateStateHash_ /\ RestTiming

SpecTiming == InitTiming /\ [][NextTiming]_vars

InitSkip ==
    InitGLPart
        /\ ProgramIdle
        /\ TimingIdle
        /\ InitSkipPart
        /\ HighlightIdle
        /\ InitSeekPart
        /\ ResizeIdle
        /\ SlotIdle
        /\ MessageIdle
        /\ GuardIdle
        /\ InitFramePart
        /\ ExperimentsIdle
        /\ LateIdle

RestSkip == UNCHANGED <<glVars, progVars, timeVars, hlVars, seekVars,
                         resizeVars,
                         slotVars, msgVars, guardVars, frameVars, expVars,
        lateVars>>

NextSkip ==
    \/ trigger /\ RestSkip
    \/ useProgramPost /\ RestSkip
    \/ applyToSubStep /\ RestSkip
    \/ restoreState /\ RestSkip

SpecSkip == InitSkip /\ [][NextSkip]_vars

InitHighlight ==
    InitGLPart
        /\ ProgramIdle
        /\ TimingIdle
        /\ InitSkipPart
        /\ InitHighlightPart
        /\ InitSeekPart
        /\ ResizeIdle
        /\ SlotIdle
        /\ MessageIdle
        /\ GuardIdle
        /\ InitFramePart
        /\ ExperimentsIdle
        /\ LateIdle

RestHighlight == UNCHANGED <<glVars, progVars, timeVars, skipVars, seekVars,
                         resizeVars,
                         slotVars, msgVars, guardVars, frameVars, expVars,
        lateVars>>

NextHighlight ==
    \/ seekSubStepEvent /\ RestHighlight
    \/ highlightTrigger /\ RestHighlight
    \/ highlightRestoreState /\ RestHighlight

SpecHighlight == InitHighlight /\ [][NextHighlight]_vars

InitSeek ==
    InitGLPart
        /\ ProgramIdle
        /\ TimingIdle
        /\ InitSkipPart
        /\ HighlightIdle
        /\ InitSeekPart
        /\ ResizeIdle
        /\ SlotIdle
        /\ MessageIdle
        /\ GuardIdle
        /\ InitFramePart
        /\ ExperimentsIdle
        /\ LateIdle

RestSeek == UNCHANGED <<glVars, progVars, timeVars, hlVars,
                         resizeVars,
                         slotVars, msgVars, guardVars, frameVars, expVars,
        lateVars>>

NextSeek ==
    \/ skipSeekStep /\ RestSeek
    \/ skipSeekSubStepEvent /\ RestSeek
    \/ skipApplyToSubStep /\ RestSeek
    \/ skipTrigger /\ RestSeek
    \/ skipRestoreState /\ RestSeek

SpecSeek == InitSeek /\ [][NextSeek]_vars

InitSync ==
    InitGLPart
        /\ InitSyncPart
        /\ TimingIdle
        /\ InitSkipPart
        /\ HighlightIdle
        /\ InitSeekPart
        /\ ResizeIdle
        /\ SlotIdle
        /\ MessageIdle
        /\ GuardIdle
        /\ InitFramePart
        /\ ExperimentsIdle
        /\ LateIdle

NextSync ==
    \/ createVariantProgram /\ RestProgram
    \/ deleteVariants /\ RestProgram
    \/ drawWithVariant /\ RestProgram
    \/ useProgram /\ RestProgram

SpecSync == InitSync /\ [][NextSync]_vars

InitResize ==
    InitGLPart
        /\ ProgramIdle
        /\ TimingIdle
        /\ InitSkipPart
        /\ HighlightIdle
        /\ InitSeekPart
        /\ InitResizePart
        /\ SlotIdle
        /\ MessageIdle
        /\ GuardIdle
        /\ InitFramePart
        /\ ExperimentsIdle
        /\ LateIdle

RestResize == UNCHANGED <<progVars, timeVars, skipVars, hlVars, seekVars,
                         slotVars, msgVars, guardVars, frameVars, expVars,
        lateVars>>

NextResize ==
    \/ clear /\ RestResize /\ UNCHANGED resizeVars
    \/ resize /\ RestResize
    \/ disableResize /\ RestResize
    \/ enableResize /\ RestResize

SpecResize == InitResize /\ [][NextResize]_vars

NextSurface ==
    \/ enable /\ RestResize /\ UNCHANGED resizeVars
    \/ activeTexture /\ RestResize /\ UNCHANGED resizeVars
    \/ bindTexture /\ RestResize /\ UNCHANGED resizeVars
    \/ bindFramebuffer /\ RestResize /\ UNCHANGED resizeVars
    \/ captureTexture /\ RestResize
    \/ drawTexture /\ RestResize

SpecSurface == InitGL /\ [][NextSurface]_vars

InitStorage ==
    InitGLBound
        /\ ProgramIdle
        /\ TimingIdle
        /\ InitSkipPart
        /\ HighlightIdle
        /\ InitSeekPart
        /\ ResizeIdle
        /\ SlotIdle
        /\ MessageIdle
        /\ GuardIdle
        /\ InitFramePart
        /\ ExperimentsIdle
        /\ LateIdle

NextStorage ==
    \/ clear /\ RestResize /\ UNCHANGED resizeVars
    \/ captureTexture /\ RestResize
    \/ drawTexture /\ RestResize
    \/ resize /\ RestResize
    \/ disableResize /\ RestResize
    \/ enableResize /\ RestResize

SpecStorage == InitStorage /\ [][NextStorage]_vars

\* The application changes toggles and bindings between the visualizer's
\* backup() and restore() calls, which may nest.
RestSlot == UNCHANGED <<progVars, timeVars, skipVars, hlVars, seekVars,
                       resizeVars, msgVars, guardVars, frameVars, expVars,
        lateVars>>

NextSlot ==
    \/ enable /\ RestGL
    \/ activeTexture /\ RestGL
    \/ bindTexture /\ RestGL
    \/ backup /\ TrackBackup /\ RestSlot
    \/ restore /\ TrackRestore /\ RestSlot

SpecSlot == InitGL /\ [][NextSlot]_vars

\* The replayed application changes toggles and binds framebuffers; the two
\* visualizers' drawToSurface_ run on its draw calls.
NextDraw ==
    \/ enable /\ RestGL
    \/ bindFramebuffer /\ RestGL
    \/ overdrawDrawToSurface_ /\ RestResize
    \/ highlightDrawToSurface_ /\ RestResize

SpecDraw == InitGL /\ [][NextDraw]_vars

InitMessage ==
    InitGLPart
        /\ ProgramIdle
        /\ TimingIdle
        /\ InitSkipPart
        /\ HighlightIdle
        /\ InitSeekPart
        /\ ResizeIdle
        /\ SlotIdle
        /\ InitMessagePart
        /\ GuardIdle
        /\ InitFramePart
        /\ ExperimentsIdle
        /\ LateIdle

RestMessage == UNCHANGED <<glVars, progVars, timeVars, skipVars, hlVars,
                           seekVars, resizeVars, slotVars, guardVars, frameVars, expVars,
        lateVars>>

NextMessage ==
    \/ changeContextMessage /\ RestMessage

SpecMessage == InitMessage /\ [][NextMessage]_vars

InitGuard ==
    InitGLPart
        /\ ProgramIdle
        /\ TimingIdle
        /\ InitSkipPart
        /\ HighlightIdle
        /\ InitSeekPart
        /\ ResizeIdle
        /\ SlotIdle
        /\ MessageIdle
        /\ InitGuardPart
        /\ InitFramePart
        /\ ExperimentsIdle
        /\ LateIdle

RestGuard == UNCHANGED <<glVars, progVars, timeVars, skipVars, hlVars,
                         seekVars, resizeVars, slotVars, msgVars, frameVars, expVars,
        lateVars>>

NextGuard ==
    \/ guardSeekSubStepEvent /\ RestGuard
    \/ guardTrigger /\ RestGuard

SpecGuard == InitGuard /\ [][NextGuard]_vars

RestFrame == UNCHANGED <<glVars, progVars, skipVars, hlVars, seekVars,
                         resizeVars, slotVars, msgVars, guardVars, expVars,
        lateVars>>

NextFrame ==
    \/ startTiming /\ RestFrame
    \/ stopTiming /\ RestFrame
    \/ cancelTiming /\ RestFrame

SpecFrame == InitGL /\ [][NextFrame]_vars

RestExperiments == UNCHANGED <<glVars, progVars, skipVars, hlVars, seekVars,
                               resizeVars, slotVars, msgVars, guardVars,
                               frameVars,
        lateVars>>

NextExperiments ==
    \/ stepStarted /\ RestExperiments
    \/ stepChanged /\ RestExperiments
    \/ playStops /\ RestExperiments
    \/ visualizerStateChanged /\ RestExperiments

SpecExperiments == InitGL /\ [][NextExperiments]_vars

\* The components of the earlier specifications, at rest.
RestEarly == UNCHANGED <<glVars, progVars, timeVars, skipVars, hlVars,
                         seekVars, resizeVars, slotVars, msgVars, guardVars,
                         frameVars, expVars>>

RestReplace == UNCHANGED <<glVars, progVars, timeVars, hlVars, seekVars,
                           resizeVars, slotVars, msgVars, guardVars,
                           frameVars, expVars, overdrawVars, relinkVars>>

NextReplace ==
    \/ replayCall /\ RestReplace
    \/ replaceSeekStep /\ RestReplace
    \/ replaceApplyToSubStep /\ RestReplace

SpecReplace == InitGL /\ [][NextReplace]_vars

RestOverdraw == RestEarly /\ UNCHANGED <<replaceVars, relinkVars>>

NextOverdraw ==
    \/ overdrawSeek /\ RestOverdraw
    \/ overdrawTrigger /\ RestOverdraw
    \/ overdrawDrawOverdraw /\ RestOverdraw
    \/ overdrawRestoreState /\ RestOverdraw

SpecOverdraw == InitGL /\ [][NextOverdraw]_vars

RestRelink == RestEarly /\ UNCHANGED <<replaceVars, overdrawVars>>

NextRelink ==
    \/ processLinkProgram /\ RestRelink
    \/ deleteProgram /\ RestRelink

SpecRelink == InitGL /\ [][NextRelink]_vars

(***************************************************************************)
(* Properties of WebGLState and IntermediateBuffer (SpecGL).               *)
(***************************************************************************)
\* C1: right after a restore() that passed its assertion, the toggle states,
\* the 2D and cube-map binding of every texture unit and the active texture
\* unit equal those seen right before the matching (latest) backup(),
\* whatever was enabled, disabled, bound or made active in between.
C1_RestoreRoundTrip ==
    (lastCall.op = "restore" /\ ~lastCall.threw)
        => SnapshotView(gl) = SnapshotView(preBackup["vis"])

\* C1 witness: a restore() that had something to undo.
C1_Witness ==
    /\ lastCall.op = "restore"
    /\ ~lastCall.threw
    /\ lastCall.changed
    /\ mutations >= 1

\* C2: restore() on an instance that never took a backup fails its assertion
\* and issues no GL call at all.
C2_RestoreWithoutBackupFails ==
    (lastCall.op = "restore" /\ ~webGLState["vis"].backupStored_)
        => (lastCall.threw /\ lastCall.calls = <<>>)

\* C2 witness: restore() has been called on a never-backed-up instance, after
\* the application changed the GL state.
C2_Witness ==
    /\ lastCall.op = "restore"
    /\ ~webGLState["vis"].backupStored_
    /\ lastCall.threw
    /\ mutations >= 1

\* C3 (as claimed): after IntermediateBuffer.clear() the framebuffer binding,
\* the toggle states and the texture-unit bindings equal those seen right
\* before the call.
C3_ClearKeepsCallerState ==
    (lastCall.op = "clear")
        => /\ gl.framebuffer = preCall.framebuffer
           /\ SnapshotView(gl) = SnapshotView(preCall)

\* C26: WebGLState holds one backup slot, not a stack: once a backup() has
\* overwritten an unrestored earlier one, every restore() that passes its
\* assertion, the first and the ones after it, leaves the snapshot state as
\* the latest backup() saw it, and the slot holds those values only.
C26_SingleBackupSlot ==
    (lastCall.op = "restore" /\ ~lastCall.threw /\ nested.overwritten)
        => /\ SnapshotView(gl) = SnapshotView(preBackup["vis"])
           /\ webGLState["vis"].savedToggleStates_
                  = preBackup["vis"].toggles
           /\ webGLState["vis"].savedActiveTexture_
                  = preBackup["vis"].activeTexture
           /\ (nested.earlier # SnapshotView(preBackup["vis"])
                  => SnapshotView(gl) # nested.earlier)

\* C26 witness: the second restore() after a backup() that overwrote an
\* unrestored backup() of a different state.
C26_Witness ==
    /\ lastCall.op = "restore"
    /\ ~lastCall.threw
    /\ nested.overwritten
    /\ nested.restores = 2
    /\ nested.earlier # SnapshotView(preBackup["vis"])
    /\ SnapshotView(gl) = SnapshotView(preBackup["vis"])

(***************************************************************************)
(* Properties of Program (SpecProgram).                                    *)
(***************************************************************************)
\* GL calls made only while a variant is created.
CreateCalls ==
    {"createProgram", "createShader", "shaderSource", "compileShader",
     "attachShader", "linkProgram", "detachShader", "deleteShader"}

\* Positions in the latest call's sequence of GL calls whose call is one of
\* `kinds`.
CallsOf(kinds) == {i \in 1 .. Len(plast.log) : plast.log[i][1] \in kinds}

\* C4: a drawWithVariant(drawFunction, name) that returns has, in this order,
\* created the variant only if none named `name` existed, synced uniforms and
\* attributes from the original, bound the variant, invoked drawFunction
\* exactly once with the variant as current program, and bound the original
\* program, which is the current program on return.
C4_DrawWithVariantOrder ==
    (plast.op = "drawWithVariant" /\ ~plast.threw) =>
        LET L == plast.log
            n == Len(L)
            variant == program.variants_[plast.name]
        IN  /\ variant # 0
            /\ n >= 3
            \* created if and only if absent, and before anything else
            /\ Cardinality(CallsOf({"createProgram"}))
                   = (IF plast.existed THEN 0 ELSE 1)
            /\ plast.existed => CallsOf(CreateCalls) = {}
            /\ \A i \in CallsOf(CreateCalls), j \in 1 .. n :
                   j \notin CallsOf(CreateCalls) => i < j
            \* the sync is over before the variant is bound for the draw, and
            \* has given the variant the original's uniform values
            /\ \A i \in 1 .. n :
                   (i >= n - 2) =>
                       L[i][1] \in {"useProgram", "drawFunction"}
            /\ pgl.uvalue[variant] = pgl.uvalue[OriginalProgram]
            \* bind the variant, draw once with it, bind the original
            /\ L[n - 2] = <<"useProgram", variant>>
            /\ L[n - 1] = <<"drawFunction", variant>>
            /\ L[n] = <<"useProgram", OriginalProgram>>
            /\ CallsOf({"drawFunction"}) = {n - 1}
            /\ pgl.current = OriginalProgram

\* C4 witness: a draw that returned after creating its variant lazily and
\* syncing at least one uniform.
C4_Witness ==
    /\ plast.op = "drawWithVariant"
    /\ ~plast.threw
    /\ ~plast.existed
    /\ Len(uniforms) >= 1
    /\ Len(plast.log) > 3
    /\ plast.log[1] = <<"createProgram", program.variants_[plast.name]>>
    /\ pgl.current = OriginalProgram

\* The uniform types of WebGL: bool, int and float, their vectors of 2, 3 and
\* 4 components, the three matrices and the two samplers.
WebGLUniformTypes == UniformTypes \ {"OTHER"}

\* The latest call was a drawWithVariant that reached syncPrograms_.
Synced ==
    /\ plast.op = "drawWithVariant"
    /\ program.variants_[plast.name] # 0

\* C13: syncPrograms_ handles every active uniform of any WebGL uniform type:
\* it completes without an assertion failure and leaves the variant's uniform
\* equal to the original's current value.
C13_EveryWebGLTypeSyncs ==
    (Synced /\ \A i \in 1 .. Len(uniforms) : uniforms[i] \in WebGLUniformTypes)
        => /\ ~plast.threw
           /\ pgl.uvalue[program.variants_[plast.name]]
                  = pgl.uvalue[OriginalProgram]

\* C14: when syncPrograms_ meets a uniform whose type tag is not a WebGL
\* uniform type it raises a fatal assertion: the uniform is not skipped
\* silently, and the draw function of the variant draw is never invoked.
C14_UnknownTypeIsFatal ==
    (Synced /\ \E i \in 1 .. Len(uniforms) : uniforms[i] \notin WebGLUniformTypes)
        => /\ plast.threw
           /\ plast.log[Len(plast.log)] = <<"assert", "Unsupported uniform type.">>
           /\ CallsOf({"drawFunction"}) = {}

\* A draw with an existing variant met a uniform of an unknown type.
C14_Witness ==
    /\ Synced
    /\ plast.existed
    /\ uniforms = <<"OTHER">>
    /\ plast.threw

\* C15: drawWithVariant with a name that has no variant and is neither
\* 'highlight' nor 'overdraw' fails with a fatal assertion: no variant is
\* created, no program is bound and the draw function is not invoked.
C15_UnknownVariantNameIsFatal ==
    (/\ plast.op = "drawWithVariant"
     /\ ~plast.existed
     /\ plast.name \notin {"highlight", "overdraw"})
        => /\ plast.threw
           /\ plast.log = << <<"assert", "Unsupported variant name.">> >>
           /\ program.variants_[plast.name] = 0

\* A draw with the name 'custom' before any variant of that name was created.
C15_Witness ==
    /\ plast.op = "drawWithVariant"
    /\ plast.name = "custom"
    /\ ~plast.existed
    /\ plast.threw
    /\ program.variants_["highlight"] # 0

\* C16: createVariantProgram is idempotent per name: a call with a name that
\* has a variant makes no GL call (no program created, no shader compiled,
\* nothing linked) and leaves the stored variant and the context unchanged,
\* whatever sources it is given.
C16_CreateExistingVariantIsNoOp ==
    [][(plast'.op = "createVariantProgram" /\ plast'.existed)
           => /\ plast'.log = <<>>
              /\ ~plast'.threw
              /\ program' = program
              /\ pgl' = pgl]_vars

\* createVariantProgram was called with the name of an existing variant.
C16_Witness ==
    /\ plast.op = "createVariantProgram"
    /\ plast.existed
    /\ program.variants_[plast.name] # 0
    /\ plast.vertexSource = "source"
    /\ plast.fragmentSource = "source"
    /\ plast.log = <<>>

\* The latest call created the program p.
Created(p) ==
    /\ plast.log # <<>>
    /\ plast.log[1] = <<"createProgram", p>>

\* The shaders attached to p when the latest call linked it.
LinkedStages(p) ==
    {sh \in {"originalVertexShader_", "variantVertexShader",
             "originalFragmentShader_", "variantFragmentShader"} :
        \E i, j \in 1 .. Len(plast.log) :
            /\ i < j
            /\ plast.log[i] = <<"attachShader", p, sh>>
            /\ plast.log[j] = <<"linkProgram", p>>}

\* The shaders the latest call attached to p and left attached.
AttachedStages(p) ==
    {sh \in {"originalVertexShader_", "variantVertexShader",
             "originalFragmentShader_", "variantFragmentShader"} :
        \E i \in 1 .. Len(plast.log) :
            /\ plast.log[i] = <<"attachShader", p, sh>>
            /\ \A j \in (i + 1) .. Len(plast.log) :
                   plast.log[j] # <<"detachShader", p, sh>>}

VertexStages == {"originalVertexShader_", "variantVertexShader"}

\* C17: every variant program is linked with the vertex shader of
\* the original program as its vertex stage, and after its creation the vertex
\* stage attached to it is that shader or none.
C17_VertexStageIsOriginal ==
    \A p \in ProgramIds :
        Created(p) =>
            /\ LinkedStages(p) \cap VertexStages = {"originalVertexShader_"}
            /\ AttachedStages(p) \cap VertexStages
                   \subseteq {"originalVertexShader_"}

\* The GL calls the latest call made to set up attribute i of the original
\* program at location loc of the variant.
AttributeCalls(i, loc) ==
    {k \in 1 .. Len(plast.log) :
        plast.log[k] \in {<<"enableVertexAttribArray", loc>>,
                          <<"bindBuffer", i>>,
                          <<"vertexAttribPointer", loc>>}}

\* C18: during syncPrograms_ an attribute that is active and array-enabled in
\* the original but has a location below 0 in the variant is skipped without
\* error: no enableVertexAttribArray, bindBuffer or vertexAttribPointer is
\* issued for it, and every other enabled attribute is still synced.
C18_DroppedAttributeIsSkipped ==
    (/\ Synced
     /\ \A k \in 1 .. Len(plast.log) :
            plast.log[k] # <<"assert", "Unsupported uniform type.">>)
        => /\ ~plast.threw
           /\ \A i \in 1 .. Len(attributes) :
                  LET loc == attributes[i].variantLocation
                  IN  IF attributes[i].enabled /\ loc >= 0
                      THEN \E k \in 1 .. (Len(plast.log) - 2) :
                               /\ plast.log[k] = <<"enableVertexAttribArray", loc>>
                               /\ plast.log[k + 1] = <<"bindBuffer", i>>
                               /\ plast.log[k + 2] = <<"vertexAttribPointer", loc>>
                      ELSE AttributeCalls(i, loc) = {}

\* A sync met a dropped attribute before one that the variant kept.
C18_Witness ==
    /\ Synced
    /\ ~plast.threw
    /\ Len(attributes) = 2
    /\ attributes[1] = [enabled |-> TRUE, variantLocation |-> -1]
    /\ attributes[2] = [enabled |-> TRUE, variantLocation |-> 1]
    /\ AttributeCalls(2, 1) # {}

(***************************************************************************)
(* Properties of HighlightVisualizer (SpecHighlight).                      *)
(***************************************************************************)
\* C10: the highlight toggle is a round trip: after trigger on an index and
\* trigger on the same index again (both having found a context), the visible
\* framebuffer holds exactly the image it held before the first of the two.
C10_SecondTriggerRestoresFramebuffer ==
    (hlast.op = "trigger" /\ hlast.second /\ ~hlast.abandoned)
        => Visible(World) = hlast.pre

\* C11: a trigger that cannot complete because no context handle was observed
\* abandons cleanly: on return the playback cursor is where it was on entry.
C11_AbandonedTriggerKeepsCursor ==
    (hlast.op = "trigger" /\ hlast.abandoned)
        => hplayback.subStepEventIndex = hlast.entry

\* C29: the overdraw amount in the context message is the number 0, with no
\* division by the affected count evaluated, whenever the affected count is
\* zero; otherwise it is numOverdraw / numAffected in two decimals, that is
\* within half a hundredth of the quotient, from the one division by the
\* affected count.
C29_OverdrawAmount ==
    (mlast.op = "trigger" /\ mlast.stats.present)
        => LET amount == message.overdrawAmount
               st == mlast.stats
               byAffected ==
                   {i \in 1 .. Len(mlast.divisions) :
                       mlast.divisions[i][2] = "numAffected"}
           IN  IF st.numAffected = 0
               THEN /\ amount = Zero
                    /\ byAffected = {}
               ELSE /\ ~amount.number
                    /\ amount.digits = 2
                    /\ 2 * (amount.scaled * st.numAffected
                              - 100 * st.numOverdraw) <= st.numAffected
                    /\ 2 * (100 * st.numOverdraw
                              - amount.scaled * st.numAffected)
                           < st.numAffected
                    /\ byAffected = {1}
                    /\ mlast.divisions[1][1] = "numOverdraw"

\* C29 witnesses: a message for a quotient that has no two-decimal form
\* (2 / 3 is reported as 0.67).
C29_Witness ==
    /\ mlast.op = "trigger"
    /\ mlast.stats = [present |-> TRUE, numOverdraw |-> 2, numAffected |-> 3,
                      numPixels |-> 4]
    /\ Len(mlast.divisions) = 2
    /\ message.set
    /\ message.overdrawAmount.scaled = 67
    /\ message.affectedPercent.scaled = 75

\* The calls drawn into the visualizer surface by the last operation.
DrawnLayers == {highlight.drawn[i] : i \in 1 .. Len(highlight.drawn)}

\* C36: in trigger(index) that found a context, firstDraw_ is set while the
\* call at the target index is replayed and for no other call; the calls
\* replayed after it are drawn into the visualizer surface only when the
\* substep index on entry lay beyond the target, and then with firstDraw_
\* false; on return firstDraw_ is false.
C36_FirstDrawOnlyAtTarget ==
    (hlast.op = "trigger" /\ ~hlast.abandoned)
        => /\ ~highlight.firstDraw_
           /\ \A layer \in DrawnLayers :
                 /\ layer.first <=> layer.index = hlast.index
                 /\ layer.index # hlast.index
                        => /\ hlast.entry > hlast.index
                           /\ layer.index > hlast.index
                           /\ layer.index <= hlast.entry

\* C36 witness: the trigger was called with the cursor beyond the target,
\* and the target call was drawn with firstDraw_ and a later call without.
C36_Witness ==
    /\ hlast.op = "trigger"
    /\ ~hlast.abandoned
    /\ \E first, later \in DrawnLayers :
          /\ first.first
          /\ first.index = hlast.index
          /\ ~later.first
          /\ later.index > hlast.index

\* C37: modifyDraws is false whenever trigger is not executing: every
\* operation, trigger on each of its return paths included, leaves it false,
\* and no draw or clear that playback replays outside a trigger is rendered
\* into the visualizer surface: a seek of playback leaves the image of the
\* surface as it was.
C37_PlaybackKeepsOffVisualizerSurface ==
    [][/\ ~highlight'.modifyDraws
       /\ hlast'.op = "seekSubStepEvent"
              => hgl'.image["visualizer"] = hgl.image["visualizer"]]_vars

(***************************************************************************)
(* Properties of IntermediateBuffer.resize (SpecResize).                   *)
(***************************************************************************)
\* What a resize can change: the buffer, its storage, the context and the
\* WebGLState of the buffer.
ResizeState == <<ib, surface, gl, webGLState>>

\* C19: resize(width, height) with the dimensions the buffer has is a no-op:
\* it takes no backup, issues no texImage2D or renderbufferStorage (no GL call
\* at all) and changes neither width, height nor the pixels; so a resize
\* repeated with the same arguments changes nothing the first one left.
C19_ResizeToSameSizeIsNoOp ==
    [][(lastCall'.op = "resize"
            /\ (\/ (rlast'.width = ib.width_ /\ rlast'.height = ib.height_)
                \/ (lastCall.op = "resize" /\ rlast' = rlast)))
           => /\ lastCall'.calls = <<>>
              /\ UNCHANGED ResizeState]_vars

\* A resize to the size of the buffer found pixels in it and resizing enabled.
C19_Witness ==
    /\ lastCall.op = "resize"
    /\ lastCall.calls = <<>>
    /\ ~ib.resizeDisabled_
    /\ rlast.width = ib.width_
    /\ rlast.height = ib.height_
    /\ ib.width_ = 2
    /\ surface.color = "cleared"

\* C20: between disableResize() and the next enableResize() no resize call
\* changes width or height or reallocates storage.
C20_DisabledResizeChangesNothing ==
    [][(ib.resizeDisabled_ /\ lastCall'.op = "resize")
           => /\ ib' = ib
              /\ surface' = surface
              /\ lastCall'.calls = <<>>]_vars

\* A resize to another size was called while resizing was disabled.
C20_Witness ==
    /\ lastCall.op = "resize"
    /\ ib.resizeDisabled_
    /\ rlast.width # ib.width_
    /\ rlast.height # ib.height_
    /\ surface.color = "cleared"

\* C21: after construction and after any sequence of resize, disableResize,
\* enableResize, captureTexture, clear and drawTexture calls, the storage of
\* the color texture and the storage of the depth renderbuffer both have the
\* dimensions (width_, height_) of the buffer.
C21_StorageHasSurfaceSize ==
    /\ storage.color = <<ib.width_, ib.height_>>
    /\ storage.depth = <<ib.width_, ib.height_>>

\* A captureTexture took the pixels of the bound framebuffer into a buffer
\* that was resized to 2 by 1 before.
C21_Witness ==
    /\ lastCall.op = "captureTexture"
    /\ surface.color = "captured"
    /\ ib.width_ = 2
    /\ ib.height_ = 1
    /\ storage.color = <<2, 1>>
    /\ rlast.width = 2

\* C27: captureTexture() preserves the texture binding of its caller: after
\* the call the active texture unit is the one it was before, and the
\* TEXTURE_2D binding of that unit is the texture it was before.
C27_CaptureKeepsTextureBinding ==
    lastCall.op = "captureTexture" =>
        /\ gl.activeTexture = preCall.activeTexture
        /\ glTextureBinding2D(gl) = glTextureBinding2D(preCall)
        /\ gl.binding2D = preCall.binding2D

\* A capture was made while a texture of the application was bound to the
\* second texture unit, the active one.
C27_Witness ==
    /\ lastCall.op = "captureTexture"
    /\ gl.activeTexture = TEXTURE0 + 1
    /\ glTextureBinding2D(gl) = 1
    /\ Len(lastCall.calls) = 3

\* The toggles drawTexture sets before it draws.
CompositingToggles ==
    {"CULL_FACE", "DEPTH_TEST", "DITHER", "SCISSOR_TEST", "STENCIL_TEST"}

\* C28: when drawTexture(blend) issues its quad draw, CULL_FACE, DEPTH_TEST,
\* DITHER, SCISSOR_TEST and STENCIL_TEST are disabled and BLEND is enabled if
\* and only if blend is truthy; after drawTexture returns all of these toggles
\* hold the values they had before the call.
C28_DrawTextureToggles ==
    lastCall.op = "drawTexture" =>
        /\ \A t \in CompositingToggles : ~rlast.toggles[t]
        /\ rlast.toggles["BLEND"] = (rlast.blend = "true")
        /\ \A t \in CompositingToggles \cup {"BLEND"} :
               gl.toggles[t] = preCall.toggles[t]

\* A blended drawTexture was called with CULL_FACE enabled and BLEND disabled.
C28_Witness ==
    /\ lastCall.op = "drawTexture"
    /\ rlast.blend = "true"
    /\ rlast.toggles["BLEND"]
    /\ gl.toggles["CULL_FACE"]
    /\ ~gl.toggles["BLEND"]

DrawToSurfaceOps ==
    {"Overdraw.drawToSurface_", "HighlightVisualizer.drawToSurface_"}

\* C30: drawToSurface_ of Overdraw and of HighlightVisualizer runs the draw
\* function only if no framebuffer was bound at the call; with a framebuffer
\* bound it issues no GL call at all: the framebuffer binding, the toggles
\* (blend and stencil among them) and the visualizer surface stay as they
\* were.
C30_DrawToSurfaceOnlyOnDefault ==
    lastCall.op \in DrawToSurfaceOps
        => IF preCall.framebuffer # 0
           THEN /\ lastCall.calls = <<>>
                /\ gl = preCall
                /\ ~lastCall.changed
           ELSE /\ lastCall.calls[Len(lastCall.calls)] = <<"drawFunction">>
                /\ gl.framebuffer = SurfaceFramebuffer

\* C30 witness: drawToSurface_ was called with the application's framebuffer
\* bound and STENCIL_TEST enabled, and changed neither.
C30_Witness ==
    /\ lastCall.op = "HighlightVisualizer.drawToSurface_"
    /\ preCall.framebuffer = 2
    /\ gl.framebuffer = 2
    /\ gl.toggles["STENCIL_TEST"]
    /\ ~gl.toggles["BLEND"]
    /\ lastCall.calls = <<>>

(***************************************************************************)
(* Properties of SkipCallsVisualizer (SpecSkip).                           *)
(***************************************************************************)
\* The program handles visualizer v skips.
SkippedSet(v) ==
    {i \in DOMAIN skippedProgramHandles_[v] : skippedProgramHandles_[v][i]}

\* What v.getStateHash() returns.
StateHash(v) == GetStateHash(active[v], skippedProgramHandles_[v])

\* The handles of a set in increasing order, separated by commas.
RECURSIVE EncodeSet(_)
EncodeSet(S) ==
    IF S = {} THEN ""
    ELSE LET m == CHOOSE i \in S : \A j \in S : i <= j
         IN  IF S = {m} THEN ToString(m)
             ELSE ToString(m) \o "," \o EncodeSet(S \ {m})

\* C7: the hash does not depend on activation: as long as the
\* set of skipped handles of a visualizer does not change, neither does its
\* hash.
C7_HashUnchangedByActivation ==
    [][\A v \in Vis :
           (SkippedSet(v)' = SkippedSet(v)) => (StateHash(v)' = StateHash(v))
      ]_vars

\* C8: changing the configuration changes the hash: every applyToSubStep
\* that toggles a handle changes the string getStateHash() returns, and two
\* visualizers skipping different sets of handles never have the same hash.
C8_ToggleChangesHash ==
    /\ [](\A x, y \in Vis :
              (SkippedSet(x) # SkippedSet(y)) => StateHash(x) # StateHash(y))
    /\ [][\A v \in Vis :
              (SkippedSet(v)' # SkippedSet(v))
                  => (StateHash(v)' # StateHash(v))
         ]_vars

\* C9: two visualizers whose sets of skipped handles are
\* identical return identical hashes.
C9_SameSetSameHash ==
    \A x, y \in Vis :
        (SkippedSet(x) = SkippedSet(y)) => StateHash(x) = StateHash(y)

\* C12: restoreState() seeks playback to step 0 and then forward to the step
\* and the substep held on entry; the active flag is false under each of
\* these calls and on return, and the cursor on return is the cursor on entry.
C12_RestoreStateReplaysInactive ==
    slast.op = "restoreState" =>
        /\ slast.calls =
               << PlaybackCall("seekStep", 0, FALSE),
                  PlaybackCall("seekStep", slast.entry.stepIndex, FALSE),
                  PlaybackCall("seekSubStepEvent",
                               slast.entry.subStepEventIndex, FALSE) >>
        /\ ~active["a"]
        /\ splayback = slast.entry

\* restoreState() ran on an active visualizer with the cursor inside the
\* second step.
C12_Witness ==
    /\ slast.op = "restoreState"
    /\ slast.wasActive
    /\ slast.entry = [stepIndex |-> 1, subStepEventIndex |-> 3]
    /\ Len(slast.calls) = 3

(***************************************************************************)
(* Properties of the frame timing recorder (SpecTiming).                   *)
(***************************************************************************)
\* The frames recorded under the scenario's experiment hash.
ScenarioFrames ==
    IF scenario.hash \in DOMAIN experiments_
    THEN experiments_[scenario.hash] ELSE <<>>

\* C5: once playback, playing, has started step 0, changed to step 1, started
\* step 1, changed to step 2, started step 2 and then stopped before step 2
\* ended, frames 0 and 1 each hold exactly one completed duration and frame 2
\* holds none; no later STEP_CHANGED adds a duration for the cancelled sample.
C5_StoppedStepIsDiscarded ==
    (scenario.at = 6) =>
        /\ {0, 1, 2} \subseteq DOMAIN ScenarioFrames
        /\ Len(ScenarioFrames[0].durations_) = 1
        /\ Len(ScenarioFrames[1].durations_) = 1
        /\ ScenarioFrames[2].durations_ = <<>>
        /\ ScenarioFrames[2].startTimes_ = <<>>
        /\ ~ScenarioFrames[2].valid_

\* C5 witness: the scenario has completed and a STEP_CHANGED has arrived
\* during play since.
C5_Witness ==
    /\ scenario.at = 6
    /\ scenario.stopsAfter
    /\ latestStepIndex_ = 2
    /\ ScenarioFrames[0].durations_ # <<>>

\* Frames holding at least one completed duration, as <<hash, step>> pairs.
FramesWithDuration ==
    {hn \in Hashes \X Steps :
        /\ hn[1] \in DOMAIN experiments_
        /\ hn[2] \in DOMAIN experiments_[hn[1]]
        /\ experiments_[hn[1]][hn[2]].durations_ # <<>>}

\* C6 (as claimed): every frame in which a completed duration has been
\* recorded is returned by the accessors: for some experiment id (the hash,
\* or an index), getFrame(id, n) is that frame and getFrames(id) holds it.
C6_RecordedFramesAreReturned ==
    \A hn \in FramesWithDuration :
        LET frame == experiments_[hn[1]][hn[2]]
        IN  \/ \E id \in Hashes :
                  /\ GetFrame(id, hn[2]) = frame
                  /\ \E k \in DOMAIN GetFrames(id) : GetFrames(id)[k] = frame
            \/ \E id \in 0 .. Cardinality(Hashes) :
                  /\ GetFrame(id, hn[2]) = frame
                  /\ \E k \in DOMAIN GetFrames(id) : GetFrames(id)[k] = frame

\* The samples a ReplayFrame has recorded.
Samples(f) ==
    [startTimes_ |-> f.startTimes_, stopTimes_ |-> f.stopTimes_,
     durations_ |-> f.durations_, totalDuration_ |-> f.totalDuration_]

\* C24: cancelTiming() leaves startTimes_, stopTimes_, durations_ and
\* totalDuration_ as they were, and a stopTiming() that follows it with no
\* startTiming() in between records nothing.
C24_CancelDiscardsOnlyInFlight ==
    /\ flast.op = "cancelTiming"
           => Samples(replayFrame) = Samples(flast.before) /\ ~replayFrame.valid_
    /\ (flast.op = "stopTiming" /\ flast.cancelled)
           => /\ Samples(replayFrame) = Samples(flast.before)
              /\ replayFrame.latestStopTime_ = flast.before.latestStopTime_

\* C24 witness: a frame with one recorded sample had a second one in flight,
\* cancelled it, and was asked to stop.
C24_Witness ==
    /\ flast.op = "stopTiming"
    /\ flast.cancelled
    /\ Len(replayFrame.durations_) = 1
    /\ replayFrame.latestStartTime_ > replayFrame.stopTimes_[1]
    /\ replayFrame.totalDuration_ = replayFrame.durations_[1]

\* The sum of a sequence of durations.
RECURSIVE SumOf(_)
SumOf(durations) ==
    IF durations = <<>> THEN 0
    ELSE durations[1] + SumOf(Tail(durations))

\* C38: after any sequence of startTiming, stopTiming and cancelTiming calls,
\* startTimes_, stopTimes_ and durations_ have the same length, durations_[i]
\* is stopTimes_[i] minus startTimes_[i] for every i, and totalDuration_ is
\* the sum of durations_.
C38_SamplesAreConsistent ==
    /\ Len(replayFrame.startTimes_) = Len(replayFrame.durations_)
    /\ Len(replayFrame.stopTimes_) = Len(replayFrame.durations_)
    /\ \A i \in 1 .. Len(replayFrame.durations_) :
           replayFrame.durations_[i]
               = replayFrame.stopTimes_[i] - replayFrame.startTimes_[i]
    /\ replayFrame.totalDuration_ = SumOf(replayFrame.durations_)

\* C38 witness: two samples of different durations were recorded, a third
\* one was cancelled.
C38_Witness ==
    /\ flast.op = "cancelTiming"
    /\ flast.before.valid_
    /\ Len(replayFrame.durations_) = 2
    /\ replayFrame.durations_[1] # replayFrame.durations_[2]
    /\ replayFrame.totalDuration_ > replayFrame.durations_[2]

\* C40: a stopTiming() with no startTiming() since the last stopTiming() or
\* cancelTiming() records nothing; a stopTiming() after one or more
\* startTiming() calls records one duration, measured from the latest of
\* them; so the durations never outnumber the startTiming() calls.
C40_StopRecordsLatestStartOnce ==
    /\ (flast.op = "stopTiming" /\ flast.found = 0)
           => replayFrame = flast.before
    /\ (flast.op = "stopTiming" /\ flast.found > 0)
           => /\ replayFrame.durations_
                    = Append(flast.before.durations_,
                             replayFrame.latestStopTime_ - flast.started)
              /\ replayFrame.startTimes_
                    = Append(flast.before.startTimes_, flast.started)
    /\ Len(replayFrame.durations_) <= starts

\* C40 witness: two startTiming() calls were followed by one stopTiming(),
\* which recorded one duration from the later start.
C40_Witness ==
    /\ flast.op = "stopTiming"
    /\ flast.found = 2
    /\ Len(replayFrame.durations_) = 1
    /\ replayFrame.startTimes_[1] = flast.started
    /\ flast.started > 0

(***************************************************************************)
(* Properties of the recorder under two experiments (SpecExperiments).     *)
(***************************************************************************)
\* C23 (as claimed): no frame holds a duration of a sample during which the
\* experiment hash changed to a different one: every duration stored under
\* hash H was started and stopped under H with no VISUALIZER_STATE_CHANGED to
\* another hash in between.
C23_DurationsWithinOneHash == samples.mixed = {}

\* The frame of a hash and a step, or a new one where the recorder has none.
FrameOf(p) ==
    IF p[1] \in DOMAIN experiments_ /\ p[2] \in DOMAIN experiments_[p[1]]
    THEN experiments_[p[1]][p[2]]
    ELSE ReplayFrame(p[2])

\* C25: the recorder keeps one ReplayFrame per experiment hash and step
\* index, and k completed samples of a step under a hash leave exactly k
\* durations in it, each with its own start and stop time, none overwritten.
C25_OneDurationPerPlayThrough ==
    \A p \in ExperimentHashes \X ExperimentSteps :
        LET f == FrameOf(p)
        IN  /\ f.number_ = p[2]
            /\ Len(f.durations_) = samples.completed[p]
            /\ Len(f.startTimes_) = samples.completed[p]
            /\ Len(f.stopTimes_) = samples.completed[p]
            /\ \A i \in 1 .. Len(f.durations_) :
                   /\ f.durations_[i] = f.stopTimes_[i] - f.startTimes_[i]
                   /\ i > 1 => f.startTimes_[i] > f.stopTimes_[i - 1]
            /\ f.valid_ = (p \in samples.open)

\* C25 witness: step 0 was played through twice under one hash, and once
\* under the other.
C25_Witness ==
    /\ samples.completed[<<"", 0>>] = 2
    /\ Len(FrameOf(<<"", 0>>).durations_) = 2
    /\ FrameOf(<<"", 0>>).durations_[2] = 1
    /\ samples.completed[<<"1", 0>>] = 1
    /\ Len(FrameOf(<<"1", 0>>).durations_) = 1

(***************************************************************************)
(* Properties of the resize guard of trigger (SpecGuard).                  *)
(***************************************************************************)
\* C22: when trigger has completed, the seek back to the original substep
\* had found resize disabled on the visualizer surface of every known
\* context, every resize a replayed setContext asked for in that seek met
\* the guard and reallocated nothing, no context became known in it, and
\* resize is enabled again on every visualizer surface.
C22_SeekBackIsGuarded ==
    (glast.op = "trigger" /\ ~glast.abandoned)
        => /\ \A h \in glast.guarded.contexts :
                  glast.guarded.visualizerSurfaces[h].b.resizeDisabled_
           /\ \A i \in 1 .. Len(glast.resizes) :
                  /\ glast.resizes[i].disabled
                  /\ ~glast.resizes[i].reallocated
           /\ gvisualizer.contexts = glast.guarded.contexts
           /\ \A h \in gvisualizer.contexts :
                  /\ ~gvisualizer.visualizerSurfaces[h].b.resizeDisabled_
                  /\ gvisualizer.visualizerSurfaces[h].b.width_
                         = glast.guarded.visualizerSurfaces[h].b.width_
                  /\ gvisualizer.visualizerSurfaces[h].store
                         = glast.guarded.visualizerSurfaces[h].store
           /\ gvisualizer.completed

\* C22 witness: with two contexts known, the seek back replayed a setContext
\* of other dimensions for the context that was not the latest one when the
\* guard was set.
C22_Witness ==
    /\ glast.op = "trigger"
    /\ ~glast.abandoned
    /\ glast.guarded.contexts = {1, 2}
    /\ \E i \in 1 .. Len(glast.resizes) :
           /\ glast.resizes[i].differs
           /\ glast.resizes[i].handle # glast.guarded.latestContextHandle
    /\ \A h \in {1, 2} : ~gvisualizer.visualizerSurfaces[h].b.resizeDisabled_

(***************************************************************************)
(* Properties of the replace mutators and applyToSubStep (SpecReplace).    *)
(***************************************************************************)
\* The program handles whose skipped mark differs between two arrays.
Toggled(before, after) ==
    {i \in DOMAIN before \cup DOMAIN after :
        Truthy(before, i) # Truthy(after, i)}

\* The substep applyToSubStep was asked for: its argument, or the cursor
\* when it was called without one.
AskedSubStep ==
    IF replaced.opt = Undefined THEN replaced.entry.subStepEventIndex
    ELSE replaced.opt

\* C31: the replace mutator of drawArrays, drawElements,
\* drawArraysInstancedANGLE and drawElementsInstancedANGLE reports 'skip'
\* exactly when the program of the latest useProgram call replayed is marked
\* skipped; the replace mutators of createBuffer, bindBuffer, bufferData,
\* vertexAttribPointer and clear never report 'skip'.
C31_DrawCallsSkipWithTheirProgram ==
    replaced.op = "replay"
        => /\ replaced.name \in DrawCallNames
                => (replaced.skip
                       <=> Truthy(skippedProgramHandles_["a"], replaced.recent))
           /\ replaced.name \in KeptCallNames => ~replaced.skip

\* C31 witness: a draw call was skipped under program 2 while program 1,
\* used before it, is not skipped.
C31_Witness ==
    /\ replaced.op = "replay"
    /\ replaced.name = "ANGLEInstancedArrays#drawElementsInstancedANGLE"
    /\ replaced.skip
    /\ replaced.recent = 2
    /\ ~Truthy(skippedProgramHandles_["a"], 1)

\* C32 (as claimed): applyToSubStep(i) toggles the program of the latest
\* useProgram call before substep i for every i >= 0 that is supplied, also
\* for i = 0, and the one before the cursor only when no index is supplied.
C32_SuppliedSubStepIsUsed ==
    replaced.op = "applyToSubStep"
        => Toggled(replaced.before, skippedProgramHandles_["a"])
               = {LatestUseProgram(
                      ReplaceSteps[replaced.entry.stepIndex + 1], 0,
                      AskedSubStep, 0)}

\* C33 (as claimed): the program applyToSubStep(t) toggles is the one
\* latestProgramHandle_ holds when playback replays the call at substep t
\* of the step, also when the useProgram call that governs the call lies in
\* an earlier step.  Stated for the calls in which the substep applyToSubStep
\* scans up to is the one asked for (no index, or an index above 0).
C33_ToggledIsProgramAtReplay ==
    (replaced.op = "applyToSubStep" /\ replaced.opt # 0)
        => Toggled(replaced.before, skippedProgramHandles_["a"])
               = {LatestUseProgram(
                      ReplaceEventsFrom(1), 0,
                      CallsBeforeStep(replaced.entry.stepIndex)
                          + AskedSubStep, 0)}

(***************************************************************************)
(* Properties of Overdraw.prototype.trigger (SpecOverdraw).                *)
(***************************************************************************)
\* C34: a trigger at a position other than the one last visualized
\* calculates the overdraw and shows it; a trigger that follows a trigger,
\* the position unchanged, turns the view over without calculating: from
\* shown to standard playback and from standard playback to the stored
\* overdraw; every change of isVisible() comes with VISIBILITY_CHANGED.
C34_TriggerTogglesViews ==
    (olast.op = "trigger" /\ olast.path # "abandon")
        => /\ olast.follows
                  => /\ overdraw.visible_ = ~olast.wasVisible
                     /\ olast.computed = 0
                     /\ oplayback = olast.entry
           /\ ~olast.follows /\ olast.path = "full"
                  => /\ overdraw.visible_
                     /\ olast.computed > 0
           /\ olast.follows => olast.path = "toggle"
           /\ overdraw.visible_ # olast.wasVisible => olast.emitted > 0

\* C34 witness: the third trigger in a row shows the stored overdraw again.
C34_Witness ==
    /\ olast.op = "trigger"
    /\ olast.follows
    /\ olast.path = "toggle"
    /\ ~olast.wasVisible
    /\ overdraw.visible_
    /\ olast.computed = 0
    /\ overdraw.latestOverdraws = {1, 2}

\* C35: every call of trigger calls playback.finishVisualizer(this) exactly
\* once, whether no context is known, the view is toggled or the overdraw is
\* calculated.
C35_TriggerFinishesOnce ==
    olast.op = "trigger"
        => /\ olast.finished = 1
           /\ olast.path \in {"abandon", "toggle", "full"}

\* C35 witness: a trigger found no context and finished.
C35_Witness ==
    /\ olast.op = "trigger"
    /\ olast.path = "abandon"
    /\ olast.finished = 1
    /\ overdraw.contexts = {}

(***************************************************************************)
(* Properties of Highlight.prototype.processLinkProgram (SpecRelink).      *)
(***************************************************************************)
\* C39: after processLinkProgram for a handle that had a Program record the
\* visualizer holds one record for the handle, a new one, and every variant
\* program of the previous record has been deleted from the context.
C39_RelinkDoesNotLeak ==
    (hlinked.op = "processLinkProgram" /\ hlinked.had)
        => /\ hprograms[hlinked.handle].present
           /\ VariantsOf(hprograms[hlinked.handle]) \cap hlinked.previous = {}
           /\ hlinked.previous \cap hlive = {}

====
